---- MODULE Spec2Model ----
(***************************************************************************)
(* Verification model of the go-data-mining-workshop core: the dataset     *)
(* splitter, the CSV loaders, the KNN classifier, the k-means engine, the   *)
(* distance / accuracy utilities, the regression fit and prediction, and    *)
(* the menu driver.                                                         *)
(*                                                                          *)
(* Numbers.  The Go code computes in float64.  The model computes exactly   *)
(* over integers and rationals: feature values are small integers, a ratio  *)
(* is a pair num/den, a centroid is a vector of numerators over one common  *)
(* denominator, and a Euclidean distance sqrt(s)/q is kept as the pair      *)
(* (s, q) and compared by cross-multiplication (sqrt is monotone).          *)
(* Go indexes from 0 and TLA+ sequences from 1: Go's x[i] is x[i + 1] here. *)
(***************************************************************************)
EXTENDS Integers, Sequences, FiniteSets, TLC

VARIABLES splitter, loader, knn, km, metric, reg, menu

vars == <<splitter, loader, knn, km, metric, reg, menu>>

(***************************************************************************)
(* Bounds of the model and the small value sets the inputs are drawn from.  *)
(***************************************************************************)
MaxRows == 3
MaxDen == 3
MaxDim == 2
MaxDataRows == 2
MaxPoints == 3
MaxK == 3
MaxIter == 2
MaxTrain == 3
MaxNeighbors == 3
MaxSamples == 4
MaxInvalid == 2
MaxRounds == 3
MaxCalls == 3

Labels == {"A", "B"}
FeatureVals == {0, 1}

\* A component that takes no part in the specification at hand.
Idle == [pc |-> "idle"]

(***************************************************************************)
(* General helpers.                                                         *)
(***************************************************************************)
Range(s) == {s[i] : i \in DOMAIN s}

\* All sequences over S of length 0..n.
SeqsUpTo(S, n) == UNION {[1..m -> S] : m \in 0..n}

\* The permutations of 0..n-1 as Go slices (sequences of length n).
Perms(n) == {p \in [1..n -> 0..(n - 1)] : \A i, j \in 1..n : p[i] = p[j] => i = j}

(***************************************************************************)
(* Dataset splitter: classification.trainTestSplit.                         *)
(***************************************************************************)
\* The ratios num/den strictly between 0 and 1.
Ratios == {r \in [num : 1..MaxDen, den : 2..MaxDen] : r.num < r.den}

\* rand.New(rand.NewSource(42)).Perm(n): the generator is created afresh in
\* every call, so the permutation is a fixed function of n; which function is
\* the library's business.  The state holds it for the n of the dataset at
\* hand: seed42 is some permutation of 0..n-1, the same in every call.
Seed42Perms(n) == Perms(n)

\* A generator shared by all calls: what Perm returns changes with the number
\* of calls made before (here: reversed after an odd number of calls).
SharedPerm(seed42, calls) ==
    IF calls % 2 = 0 THEN seed42
    ELSE [i \in 1..Len(seed42) |-> seed42[Len(seed42) + 1 - i]]

\* perm := r.Perm(n) with r created in this call from the seed 42: the calls
\* made before have no part in it.
LocalPerm(seed42, calls) == seed42

\* A trainSize that rounds up instead of truncating.
TrainSizeWrong(n, ratio) == ((n * ratio.num) + ratio.den - 1) \div ratio.den

\* trainSize := int(float64(n) * ratio): truncation of a non-negative product.
TrainSize(n, ratio) == (n * ratio.num) \div ratio.den

\* for i, idx := range perm: the first trainSize permuted indices go to train,
\* the rest to test, rows and labels copied by index.
SplitAt(perm, trainSize) ==
    [train |-> SubSeq(perm, 1, trainSize),
     test  |-> SubSeq(perm, trainSize + 1, Len(perm))]

Pick(rows, idxs) == [i \in 1..Len(idxs) |-> rows[idxs[i] + 1]]

\* What a call returned (trainX, trainY, testX, testY), and at which call.
Returned(sp) ==
    [at |-> sp.at, trainX |-> sp.trainX, trainY |-> sp.trainY,
     testX |-> sp.testX, testY |-> sp.testY]

NoReturn == [at |-> 0, trainX |-> <<>>, trainY |-> <<>>, testX |-> <<>>, testY |-> <<>>]

\* splitter.calls counts the calls of trainTestSplit made so far, splitter.at
\* is the number of the call whose results the state holds, and
\* splitter.prev holds what the call before it on the same arguments returned.
InitSplitter ==
    \E X \in SeqsUpTo(FeatureVals, MaxRows), ratio \in Ratios :
      \E Y \in [1..Len(X) -> Labels], seed42 \in Seed42Perms(Len(X)) :
        splitter = [pc |-> "ready", X |-> X, Y |-> Y, ratio |-> ratio,
                    seed42 |-> seed42, perm |-> <<>>,
                    trainIdx |-> <<>>, testIdx |-> <<>>,
                    trainX |-> <<>>, trainY |-> <<>>,
                    testX |-> <<>>, testY |-> <<>>,
                    calls |-> 0, at |-> 0, prev |-> NoReturn]

\* A call on the dataset at hand; it can be made again with the same
\* arguments.
TrainTestSplit ==
    /\ splitter.pc \in {"ready", "done"}
    /\ splitter.calls < MaxCalls
    /\ LET n == Len(splitter.X)
           perm == LocalPerm(splitter.seed42, splitter.calls)
           parts == SplitAt(perm, TrainSize(n, splitter.ratio))
       IN splitter' = [splitter EXCEPT
                         !.pc = "done", !.perm = perm,
                         !.trainIdx = parts.train, !.testIdx = parts.test,
                         !.trainX = Pick(splitter.X, parts.train),
                         !.trainY = Pick(splitter.Y, parts.train),
                         !.testX = Pick(splitter.X, parts.test),
                         !.testY = Pick(splitter.Y, parts.test),
                         !.calls = @ + 1, !.at = splitter.calls + 1,
                         !.prev = IF splitter.pc = "done" THEN Returned(splitter)
                                  ELSE NoReturn]
    /\ UNCHANGED <<loader, knn, km, metric, reg, menu>>

\* A call on other rows, labels or ratio: its four results go to its caller,
\* and nothing of it stays behind, since n, r, perm and the slices are locals.
TrainTestSplitOther ==
    /\ splitter.pc \in {"ready", "done"}
    /\ splitter.calls < MaxCalls
    /\ splitter' = [splitter EXCEPT !.calls = @ + 1]
    /\ UNCHANGED <<loader, knn, km, metric, reg, menu>>

InitSplit ==
    /\ InitSplitter
    /\ loader = Idle /\ knn = Idle /\ km = Idle /\ metric = Idle
    /\ reg = Idle /\ menu = Idle

NextSplit == TrainTestSplit \/ TrainTestSplitOther

SpecSplit == InitSplit /\ [][NextSplit]_vars

\* C1: for a dataset of N rows and a ratio r in (0,1), trainTestSplit returns
\* |train| = floor(N*r) and |train| + |test| = N, and the row indices placed in
\* train and in test are disjoint and together exactly 0..N-1, each once; the
\* returned rows and labels are the rows and labels at those indices.
C1_SplitPartition ==
    splitter.pc = "done" =>
      LET n == Len(splitter.X)
          r == splitter.ratio
          tr == splitter.trainIdx
          te == splitter.testIdx
      IN /\ Len(splitter.trainX) * r.den <= n * r.num
         /\ (Len(splitter.trainX) + 1) * r.den > n * r.num
         /\ Len(splitter.trainX) + Len(splitter.testX) = n
         /\ Len(splitter.trainY) = Len(splitter.trainX)
         /\ Len(splitter.testY) = Len(splitter.testX)
         /\ Range(tr) \cap Range(te) = {}
         /\ Range(tr) \cup Range(te) = 0..(n - 1)
         /\ Cardinality(Range(tr)) = Len(tr)
         /\ Cardinality(Range(te)) = Len(te)
         /\ \A i \in 1..Len(tr) : /\ splitter.trainX[i] = splitter.X[tr[i] + 1]
                                   /\ splitter.trainY[i] = splitter.Y[tr[i] + 1]
         /\ \A i \in 1..Len(te) : /\ splitter.testX[i] = splitter.X[te[i] + 1]
                                   /\ splitter.testY[i] = splitter.Y[te[i] + 1]

\* A split of three rows at ratio 2/3 has run: two rows in train, one in test.
C1_Witness ==
    /\ splitter.pc = "done"
    /\ Len(splitter.X) = 3
    /\ splitter.ratio = [num |-> 2, den |-> 3]
    /\ Len(splitter.trainX) = 2
    /\ Len(splitter.testX) = 1

Inf == [kind |-> "inf"]
NaN == [kind |-> "nan"]
Panic == [kind |-> "panic"]
Dist(s, q) == [kind |-> "dist", s |-> s, q |-> q]
Frac(num, den) == [kind |-> "frac", num |-> num, den |-> den]

\* A data point read from a file: integer coordinates.
Pt(v) == [c |-> v, d |-> 1]

\* float64 division a / b of two non-negative integers.
FloatDiv(a, b) == IF b # 0 THEN Frac(a, b) ELSE IF a = 0 THEN NaN ELSE Inf

\* x < y on distances, as Go compares float64 values (+Inf < +Inf is false).
DistLess(x, y) ==
    /\ x.kind = "dist"
    /\ \/ y.kind = "inf"
       \/ /\ y.kind = "dist"
          /\ x.s * y.q * y.q < y.s * x.q * x.q

\* sum += diff * diff over the coordinates 1..n of two points.
RECURSIVE SumSq(_, _, _)
SumSq(p1, p2, n) ==
    IF n = 0 THEN 0
    ELSE LET diff == p1.c[n] * p2.d - p2.c[n] * p1.d
         IN SumSq(p1, p2, n - 1) + diff * diff

\* clustering.distance: +Inf on a length mismatch, else sqrt of the sum.
distance(p1, p2) ==
    IF Len(p1.c) # Len(p2.c) THEN Inf
    ELSE Dist(SumSq(p1, p2, Len(p1.c)), p1.d * p2.d)

\* classification.euclideanDistance: no length check; `for i := range a`
\* reads b[i], which panics (index out of range) when a is longer than b and
\* ignores the tail of b when b is longer.
euclideanDistance(a, b) ==
    IF Len(a) > Len(b) THEN Panic
    ELSE Dist(SumSq(Pt(a), Pt(b), Len(a)), 1)

\* The cheatsheet's euclideanDistance: it has the length check.
euclideanDistanceRef(a, b) ==
    IF Len(a) # Len(b) THEN Inf
    ELSE Dist(SumSq(Pt(a), Pt(b), Len(a)), 1)

\* The number of positions 1..n where the two label sequences agree.
RECURSIVE CountEqual(_, _, _)
CountEqual(a, b, n) ==
    IF n = 0 THEN 0
    ELSE CountEqual(a, b, n - 1) + (IF a[n] = b[n] THEN 1 ELSE 0)

\* classification.computeAccuracy: no length check; `for i := range trueLabels`
\* reads predicted[i], which panics when predicted is the shorter one.
computeAccuracy(trueLabels, predicted) ==
    IF Len(trueLabels) > Len(predicted) THEN Panic
    ELSE FloatDiv(CountEqual(trueLabels, predicted, Len(trueLabels)), Len(trueLabels))

\* The cheatsheet's calculateAccuracy: 0.0 on a length mismatch.
calculateAccuracy(actual, predicted) ==
    IF Len(actual) # Len(predicted) THEN Frac(0, 1)
    ELSE FloatDiv(CountEqual(actual, predicted, Len(actual)), Len(actual))

Vectors == SeqsUpTo(FeatureVals, MaxDim)
LabelSeqs == SeqsUpTo(Labels, MaxRows)

InitMetric == metric = [pc |-> "ready", fn |-> "", a |-> <<>>, b |-> <<>>, out |-> NaN]

Called(fn, a, b, out) == [pc |-> "returned", fn |-> fn, a |-> a, b |-> b, out |-> out]

CallDistance ==
    /\ metric.pc = "ready"
    /\ \E a, b \in Vectors :
         metric' = Called("distance", a, b, distance(Pt(a), Pt(b)))
    /\ UNCHANGED <<splitter, loader, knn, km, reg, menu>>

CallEuclideanDistance ==
    /\ metric.pc = "ready"
    /\ \E a, b \in Vectors :
         metric' = Called("euclideanDistance", a, b, euclideanDistance(a, b))
    /\ UNCHANGED <<splitter, loader, knn, km, reg, menu>>

CallEuclideanDistanceRef ==
    /\ metric.pc = "ready"
    /\ \E a, b \in Vectors :
         metric' = Called("euclideanDistanceRef", a, b, euclideanDistanceRef(a, b))
    /\ UNCHANGED <<splitter, loader, knn, km, reg, menu>>

CallComputeAccuracy ==
    /\ metric.pc = "ready"
    /\ \E a, b \in LabelSeqs :
         metric' = Called("computeAccuracy", a, b, computeAccuracy(a, b))
    /\ UNCHANGED <<splitter, loader, knn, km, reg, menu>>

CallCalculateAccuracy ==
    /\ metric.pc = "ready"
    /\ \E a, b \in LabelSeqs :
         metric' = Called("calculateAccuracy", a, b, calculateAccuracy(a, b))
    /\ UNCHANGED <<splitter, loader, knn, km, reg, menu>>

(***************************************************************************)
(* Confusion matrices: the binary one of the sleep classification program   *)
(* (calculateConfusionMatrix / printConfusionMatrix, labels 0 = Morning     *)
(* Person and 1 = Night Owl) and the string-labelled one of                 *)
(* classification.printConfusionMatrix.                                     *)
(***************************************************************************)
\* The two classes as performClassification encodes them.
BinaryLabels == {0, 1}
BinarySeqs == SeqsUpTo(BinaryLabels, MaxRows)

\* A chain whose last two branches are swapped.
CellOfWrong(a, p) ==
    IF a = 1 /\ p = 1 THEN "TruePositive"
    ELSE IF a = 0 /\ p = 0 THEN "FalsePositive"
    ELSE IF a = 0 /\ p = 1 THEN "TrueNegative"
    ELSE IF a = 1 /\ p = 0 THEN "FalseNegative"
    ELSE "none"

\* The if / else-if chain of calculateConfusionMatrix: the counter a pair
\* (actual, predicted) increments, "none" when no branch is taken.
CellOf(a, p) ==
    IF a = 1 /\ p = 1 THEN "TruePositive"
    ELSE IF a = 0 /\ p = 0 THEN "TrueNegative"
    ELSE IF a = 0 /\ p = 1 THEN "FalsePositive"
    ELSE IF a = 1 /\ p = 0 THEN "FalseNegative"
    ELSE "none"

\* The value of a counter after the loop over i = 0..n-1.
RECURSIVE CountCell(_, _, _, _)
CountCell(actual, predicted, n, cell) ==
    IF n = 0 THEN 0
    ELSE CountCell(actual, predicted, n - 1, cell)
         + (IF CellOf(actual[n], predicted[n]) = cell THEN 1 ELSE 0)

\* calculateConfusionMatrix: the loop runs over len(actual) and reads
\* predicted[i], which panics when predicted is the shorter one.
calculateConfusionMatrix(actual, predicted) ==
    IF Len(actual) > Len(predicted) THEN Panic
    ELSE [kind |-> "cm",
          TruePositive  |-> CountCell(actual, predicted, Len(actual), "TruePositive"),
          TrueNegative  |-> CountCell(actual, predicted, Len(actual), "TrueNegative"),
          FalsePositive |-> CountCell(actual, predicted, Len(actual), "FalsePositive"),
          FalseNegative |-> CountCell(actual, predicted, Len(actual), "FalseNegative")]

\* total := TP + TN + FP + FN.
CmTotal(cm) == cm.TruePositive + cm.TrueNegative + cm.FalsePositive + cm.FalseNegative

\* A metric variable that starts at 1 instead of 0.
GuardedDivWrong(num, den) == IF den > 0 THEN Frac(num, den) ELSE Frac(1, 1)

\* precision and recall: a float64 variable that stays 0 unless its
\* denominator is positive.
GuardedDiv(num, den) == IF den > 0 THEN Frac(num, den) ELSE Frac(0, 1)

\* f1Score: it stays 0 unless precision + recall > 0, and is then
\* 2 * (precision * recall) / (precision + recall).
F1Score(precision, recall) ==
    LET sum == Frac(precision.num * recall.den + recall.num * precision.den,
                    precision.den * recall.den)
        product == Frac(precision.num * recall.num, precision.den * recall.den)
    IN IF sum.num > 0
       THEN Frac(2 * product.num * sum.den, product.den * sum.num)
       ELSE Frac(0, 1)

\* part_001 printConfusionMatrix(cm): the total it prints and, unless the
\* total is 0 (it then prints an error and returns), the metrics.
printConfusionMatrixBinary(cm) ==
    IF CmTotal(cm) = 0
    THEN [total |-> 0, reported |-> FALSE, accuracy |-> NaN,
          precision |-> NaN, recall |-> NaN, f1Score |-> NaN]
    ELSE LET precision == GuardedDiv(cm.TruePositive,
                                     cm.TruePositive + cm.FalsePositive)
             recall == GuardedDiv(cm.TruePositive,
                                  cm.TruePositive + cm.FalseNegative)
         IN [total |-> CmTotal(cm), reported |-> TRUE,
             accuracy |-> Frac(cm.TruePositive + cm.TrueNegative, CmTotal(cm)),
             precision |-> precision, recall |-> recall,
             f1Score |-> F1Score(precision, recall)]

\* classification.printConfusionMatrix(actual, predicted): nothing but a
\* message on a length mismatch; else the labels seen in either sequence (it
\* prints them sorted) and, for each pair of them, the number of positions
\* with that actual and that predicted label.
printConfusionMatrix(actual, predicted) ==
    IF Len(actual) # Len(predicted) THEN [kind |-> "mismatch"]
    ELSE LET labels == Range(actual) \cup Range(predicted)
         IN [kind |-> "matrix", labels |-> labels,
             matrix |-> [al \in labels |-> [pl \in labels |->
                           Cardinality({i \in 1..Len(actual) :
                                          actual[i] = al /\ predicted[i] = pl})]]]

\* cm := calculateConfusionMatrix(testY, predictions); printConfusionMatrix(cm),
\* as performClassification runs them.
CallCalculateConfusionMatrix ==
    /\ metric.pc = "ready"
    /\ \E a, b \in BinarySeqs :
         LET cm == calculateConfusionMatrix(a, b)
         IN metric' = Called("calculateConfusionMatrix", a, b,
                             IF cm = Panic THEN Panic
                             ELSE [kind |-> "report", cm |-> cm,
                                   report |-> printConfusionMatrixBinary(cm)])
    /\ UNCHANGED <<splitter, loader, knn, km, reg, menu>>

CallPrintConfusionMatrix ==
    /\ metric.pc = "ready"
    /\ \E a, b \in LabelSeqs :
         metric' = Called("printConfusionMatrix", a, b, printConfusionMatrix(a, b))
    /\ UNCHANGED <<splitter, loader, knn, km, reg, menu>>

InitMetrics ==
    /\ InitMetric
    /\ splitter = Idle /\ loader = Idle /\ knn = Idle /\ km = Idle
    /\ reg = Idle /\ menu = Idle

NextMetrics ==
    \/ CallDistance
    \/ CallEuclideanDistance
    \/ CallEuclideanDistanceRef
    \/ CallComputeAccuracy
    \/ CallCalculateAccuracy
    \/ CallCalculateConfusionMatrix
    \/ CallPrintConfusionMatrix

SpecMetrics == InitMetrics /\ [][NextMetrics]_vars

DistanceFns == {"distance", "euclideanDistance", "euclideanDistanceRef"}
AccuracyFns == {"computeAccuracy", "calculateAccuracy"}

\* C9: every Euclidean distance routine returns +Inf, without panicking, for
\* every pair of vectors of different lengths, whichever is the longer.
C9_MismatchGivesInf ==
    (/\ metric.pc = "returned"
     /\ metric.fn \in DistanceFns
     /\ Len(metric.a) # Len(metric.b)) => metric.out = Inf

\* C10: every accuracy routine returns 0, without panicking, when the two
\* sequences differ in length, and (number of equal positions) / len(actual)
\* when they have the same length.
C10_AccuracyContract ==
    (metric.pc = "returned" /\ metric.fn \in AccuracyFns) =>
      IF Len(metric.a) # Len(metric.b)
      THEN metric.out.kind = "frac" /\ metric.out.num = 0
      ELSE metric.out = FloatDiv(CountEqual(metric.a, metric.b, Len(metric.a)),
                                 Len(metric.a))

\* The sum of f[x] over the elements x of set S.
RECURSIVE SumOver(_, _)
SumOver(f, S) ==
    IF S = {} THEN 0
    ELSE LET x == CHOOSE x \in S : TRUE IN f[x] + SumOver(f, S \ {x})

\* The sum of all cells, and of the diagonal cells, of a labelled matrix.
MatrixTotal(m) ==
    SumOver([al \in m.labels |-> SumOver(m.matrix[al], m.labels)], m.labels)
MatrixDiagonal(m) == SumOver([l \in m.labels |-> m.matrix[l][l]], m.labels)

\* C11: for equal-length actual and predicted label sequences the cells of
\* the confusion matrix sum to the number of pairs, the diagonal cells sum to
\* the number of positions where actual = predicted, and the accuracy the
\* binary report prints (it prints one unless there are no pairs) is
\* (sum of the diagonal) / (number of pairs).
C11_MatrixAccuracyIsDiagonalOverTotal ==
    (metric.pc = "returned" /\ Len(metric.a) = Len(metric.b)) =>
      LET n == Len(metric.a)
          same == CountEqual(metric.a, metric.b, n)
      IN /\ metric.fn = "calculateConfusionMatrix" =>
              /\ metric.out.kind = "report"
              /\ CmTotal(metric.out.cm) = n
              /\ metric.out.cm.TruePositive + metric.out.cm.TrueNegative = same
              /\ metric.out.report.total = n
              /\ metric.out.report.reported <=> n > 0
              /\ n > 0 => metric.out.report.accuracy = Frac(same, n)
         /\ metric.fn = "printConfusionMatrix" =>
              /\ metric.out.kind = "matrix"
              /\ MatrixTotal(metric.out) = n
              /\ MatrixDiagonal(metric.out) = same

\* A binary report on three pairs, two of them on the diagonal.
C11_Witness ==
    /\ metric.pc = "returned"
    /\ metric.fn = "calculateConfusionMatrix"
    /\ metric.a = <<1, 0, 1>>
    /\ metric.b = <<1, 0, 0>>
    /\ metric.out.report.accuracy = Frac(2, 3)

\* The fraction f has the value num / den (den # 0).
IsRatio(f, num, den) == f.kind = "frac" /\ f.den # 0 /\ f.num * den = num * f.den

\* C27: the precision, recall and F1 that printConfusionMatrix derives from a
\* matrix are 0 when their denominator is 0 (TP+FP, TP+FN, precision+recall)
\* and else TP/(TP+FP), TP/(TP+FN) and 2*P*R/(P+R), which is
\* 2*TP/(2*TP+FP+FN); no metric is the result of a division by zero.
C27_GuardedMetrics ==
    (/\ metric.pc = "returned"
     /\ metric.fn = "calculateConfusionMatrix"
     /\ metric.out # Panic
     /\ metric.out.report.reported) =>
       LET TP == metric.out.cm.TruePositive
           FP == metric.out.cm.FalsePositive
           FN == metric.out.cm.FalseNegative
           r == metric.out.report
       IN /\ r.accuracy.kind = "frac" /\ r.accuracy.den # 0
          /\ IF TP + FP = 0 THEN IsRatio(r.precision, 0, 1)
                            ELSE IsRatio(r.precision, TP, TP + FP)
          /\ IF TP + FN = 0 THEN IsRatio(r.recall, 0, 1)
                            ELSE IsRatio(r.recall, TP, TP + FN)
          /\ IF IsRatio(r.precision, 0, 1) /\ IsRatio(r.recall, 0, 1)
             THEN IsRatio(r.f1Score, 0, 1)
             ELSE /\ IsRatio(r.f1Score, 2 * TP, 2 * TP + FP + FN)
                  /\ IsRatio(r.f1Score,
                             2 * r.precision.num * r.recall.num,
                             r.precision.num * r.recall.den
                               + r.recall.num * r.precision.den)

\* Two samples, none predicted positive and one of them positive: TP + FP = 0,
\* so precision, recall and F1 are all 0.
C27_Witness ==
    /\ metric.pc = "returned"
    /\ metric.fn = "calculateConfusionMatrix"
    /\ metric.a = <<0, 1>>
    /\ metric.b = <<0, 0>>
    /\ metric.out.cm.TruePositive + metric.out.cm.FalsePositive = 0
    /\ metric.out.report.precision = Frac(0, 1)
    /\ metric.out.report.recall = Frac(0, 1)
    /\ metric.out.report.f1Score = Frac(0, 1)

(***************************************************************************)
(* CSV loaders: clustering.loadData and classification.loadCSV.             *)
(*                                                                          *)
(* The input is what csv.Reader.ReadAll returns: a sequence of records, the *)
(* first one the header, every record with as many fields as the first      *)
(* (the reader rejects anything else).  A field is a sequence of            *)
(* characters, so that trimming and number parsing are computed.            *)
(***************************************************************************)
Digits == {"1", "2"}
DigitVal(ch) == IF ch = "1" THEN 1 ELSE 2

\* strings.TrimSpace: drop the leading and the trailing blanks.
RECURSIVE TrimLeft(_)
TrimLeft(f) == IF f # <<>> /\ Head(f) = " " THEN TrimLeft(Tail(f)) ELSE f

RECURSIVE TrimRight(_)
TrimRight(f) ==
    IF f # <<>> /\ f[Len(f)] = " " THEN TrimRight(SubSeq(f, 1, Len(f) - 1)) ELSE f

TrimSpace(f) == TrimRight(TrimLeft(f))

\* strconv.ParseFloat on a decimal numeral: ok only for a non-empty digit string.
RECURSIVE Numeral(_)
Numeral(f) ==
    IF f = <<>> THEN 0
    ELSE 10 * Numeral(SubSeq(f, 1, Len(f) - 1)) + DigitVal(f[Len(f)])

ParseFloat(f) ==
    IF f # <<>> /\ \A i \in 1..Len(f) : f[i] \in Digits
    THEN [ok |-> TRUE, val |-> Numeral(f)]
    ELSE [ok |-> FALSE, val |-> 0]

\* strings.Join(row, "") == "": every field is the empty string.
JoinIsEmpty(row) == \A j \in 1..Len(row) : row[j] = <<>>

\* allValid: no field of the row is blank after trimming.
AllValid(row) == \A j \in 1..Len(row) : TrimSpace(row[j]) # <<>>

\* loadData's filter on a data row.
KeepRow(row) == ~(Len(row) = 0 \/ JoinIsEmpty(row)) /\ AllValid(row)

\* The records after the header.
DataRows(records) == IF records = <<>> THEN <<>> ELSE Tail(records)

\* The Go cells (i, j) of rows, j in from..to[i]-1, that do not parse; to[i]
\* is the column the inner loop of row i stops at.
BadCells(rows, from, to) ==
    UNION {{<<i - 1, j>> : j \in {c \in from..(to[i] - 1) :
                                   ~ParseFloat(TrimSpace(rows[i][c + 1])).ok}} :
           i \in 1..Len(rows)}

\* The cell the nested loops reach first: row by row, column by column.
FirstCell(cells) ==
    CHOOSE c \in cells : \A o \in cells : c[1] < o[1] \/ (c[1] = o[1] /\ c[2] <= o[2])

\* The parsed fields from..to-1 (Go column indexes) of a row.
ParseCols(row, from, to) ==
    [j \in 1..(to - from) |-> ParseFloat(TrimSpace(row[from + j])).val]

\* clustering.loadData: header skipped, rows with a blank field dropped, the
\* first column (a name) skipped, every other field parsed as a number.
loadData(records) ==
    IF Len(records) < 2 THEN [err |-> "not enough data", points |-> <<>>]
    ELSE LET validRecords == SelectSeq(DataRows(records), KeepRow)
             bad == BadCells(validRecords, 1, [i \in 1..Len(validRecords) |-> Len(validRecords[i])])
         IN IF bad # {}
            THEN [err |-> "parse", row |-> FirstCell(bad)[1] + 1,
                  col |-> FirstCell(bad)[2], points |-> <<>>]
            ELSE [err |-> "none",
                  points |-> [i \in 1..Len(validRecords) |->
                                ParseCols(validRecords[i], 1, Len(validRecords[i]))]]

\* classification.loadCSV: header skipped, rows of fewer than 5 fields
\* skipped, the first 4 fields parsed as numbers, the 5th kept as the label.
NumFeatures == 4
MinFields == 5

LongEnough(row) == ~(Len(row) < MinFields)

loadCSV(records) ==
    LET rows == SelectSeq(DataRows(records), LongEnough)
        bad == BadCells(rows, 0, [i \in 1..Len(rows) |-> NumFeatures])
        \* rows before the first failing one are parsed, then the error returns
    IN IF bad # {}
       THEN [err |-> "strconv", features |-> <<>>, labels |-> <<>>]
       ELSE [err |-> "none",
             features |-> [i \in 1..Len(rows) |-> ParseCols(rows[i], 0, NumFeatures)],
             labels |-> [i \in 1..Len(rows) |-> TrimSpace(rows[i][NumFeatures + 1])]]

\* The cheatsheet's loadData: the same filter as clustering.loadData; every
\* column but the last parsed as a feature, the last one kept as the label.
loadDataRef(records) ==
    IF Len(records) < 2
    THEN [err |-> "not enough data", features |-> <<>>, labels |-> <<>>]
    ELSE LET validRecords == SelectSeq(DataRows(records), KeepRow)
             bad == BadCells(validRecords, 0,
                             [i \in 1..Len(validRecords) |-> Len(validRecords[i]) - 1])
         IN IF bad # {}
            THEN [err |-> "parse", row |-> FirstCell(bad)[1] + 1,
                  col |-> FirstCell(bad)[2], features |-> <<>>, labels |-> <<>>]
            ELSE [err |-> "none",
                  features |-> [i \in 1..Len(validRecords) |->
                                  ParseCols(validRecords[i], 0, Len(validRecords[i]) - 1)],
                  labels |-> [i \in 1..Len(validRecords) |->
                                TrimSpace(validRecords[i][Len(validRecords[i])])]]

\* The class names of the sleep dataset, each one character of a field here.
MorningPerson == <<"Morning Person">>
NightOwl == <<"Night Owl">>

\* performClassification's conversion loop keeps a row when it has the five
\* fields, its four features parse and its label is one of the two classes;
\* any other row is passed over with `continue`.
Convertible(row) ==
    /\ ~(Len(row) < MinFields)
    /\ \A j \in 1..NumFeatures : ParseFloat(TrimSpace(row[j])).ok
    /\ TrimSpace(row[NumFeatures + 1]) \in {MorningPerson, NightOwl}

\* Morning Person = 0, Night Owl = 1.
SleepType(field) == IF TrimSpace(field) = MorningPerson THEN 0 ELSE 1

\* The sleep classification program: loadCSV (which fails on a file without
\* records) followed by the conversion loop of performClassification.
performClassification(records) ==
    IF Len(records) = 0 THEN [err |-> "empty CSV file", X |-> <<>>, y |-> <<>>]
    ELSE LET rows == SelectSeq(DataRows(records), Convertible)
         IN [err |-> "none",
             X |-> [i \in 1..Len(rows) |-> ParseCols(rows[i], 0, NumFeatures)],
             y |-> [i \in 1..Len(rows) |-> SleepType(rows[i][NumFeatures + 1])]]

(***************************************************************************)
(* The three convertToFloat64 of the zones clustering and housing           *)
(* regression programs.  Each takes the records after the header.           *)
(***************************************************************************)
\* len(strings.TrimSpace(strings.Join(row, ""))) == 0: nothing but blanks.
RowIsBlank(row) == \A j \in 1..Len(row) : TrimSpace(row[j]) = <<>>

\* The fields of a row the inner loop does not skip: those whose Go column
\* index is not in skipColumns, in column order.
RECURSIVE KeepCols(_, _, _)
KeepCols(row, n, skipColumns) ==
    IF n = 0 THEN <<>>
    ELSE IF (n - 1) \in skipColumns THEN KeepCols(row, n - 1, skipColumns)
         ELSE Append(KeepCols(row, n - 1, skipColumns), row[n])

\* The inner loop after the first n fields: a blank field is passed over
\* ("drop") or stored as 0.0 ("zero"), another field is parsed and appended;
\* the first field that does not parse ends the conversion (bad = its place).
RECURSIVE ConvertFields(_, _, _)
ConvertFields(fields, n, onBlank) ==
    IF n = 0 THEN [ok |-> TRUE, floatRow |-> <<>>, bad |-> 0]
    ELSE LET prev == ConvertFields(fields, n - 1, onBlank)
             val == TrimSpace(fields[n])
         IN IF ~prev.ok THEN prev
            ELSE IF val = <<>>
                 THEN IF onBlank = "zero"
                      THEN [prev EXCEPT !.floatRow = Append(@, 0)]
                      ELSE prev
            ELSE IF ParseFloat(val).ok
                 THEN [prev EXCEPT !.floatRow = Append(@, ParseFloat(val).val)]
            ELSE [ok |-> FALSE, floatRow |-> prev.floatRow, bad |-> n]

\* The outer loop after the first n rows: blank rows are passed over, a row
\* is appended when its floatRow is not empty, an error returns no result.
RECURSIVE ConvertRows(_, _, _, _)
ConvertRows(data, n, skipColumns, onBlank) ==
    IF n = 0 THEN [err |-> "none", result |-> <<>>, row |-> 0, col |-> 0]
    ELSE LET prev == ConvertRows(data, n - 1, skipColumns, onBlank)
             fields == KeepCols(data[n], Len(data[n]), skipColumns)
             conv == ConvertFields(fields, Len(fields), onBlank)
         IN IF prev.err # "none" \/ RowIsBlank(data[n]) THEN prev
            ELSE IF ~conv.ok
                 THEN [err |-> "parse", result |-> <<>>, row |-> n, col |-> conv.bad]
            ELSE IF Len(conv.floatRow) > 0
                 THEN [prev EXCEPT !.result = Append(@, conv.floatRow)]
            ELSE prev

\* zones_clustering.convertToFloat64(data): the first column (zone_id) is
\* skipped; its error message carries no position.
convertToFloat64Zones(data) ==
    LET r == ConvertRows(data, Len(data), {0}, "drop")
    IN [err |-> r.err, result |-> r.result]

\* housing_regression.convertToFloat64(data, skipColumns).
convertToFloat64Skip(data, skipColumns) ==
    LET r == ConvertRows(data, Len(data), skipColumns, "drop")
    IN [err |-> r.err, result |-> r.result]

\* housing_regression.convertToFloat64(data) of the Run variant: a blank field
\* becomes 0.0; the error names row rIdx+1 and column cIdx+1.
convertToFloat64Zero(data) == ConvertRows(data, Len(data), {}, "zero")

\* The field values of the input files: empty, blank, numerals, a padded
\* numeral, a word.
Fields == {<<>>, <<" ">>, <<"1">>, <<"2">>, <<" ", "2", " ">>, <<"x">>, NightOwl}
PlainField == <<"1">>
HeaderField == <<"x">>
ColCounts == {2, 5}

\* The data rows of nc fields: numerals, with at most one field of another kind.
Rows(nc) ==
    {[j \in 1..nc |-> IF j = at THEN f ELSE PlainField] : at \in 1..nc, f \in Fields}

\* The header of a file of nc columns.
Header(nc) == [j \in 1..nc |-> HeaderField]

\* An empty file, or a header followed by 0..MaxDataRows data rows.
InitLoader ==
    \/ loader = [pc |-> "ready", fn |-> "", records |-> <<>>, out |-> [err |-> "none"]]
    \/ \E nc \in ColCounts, m \in 0..MaxDataRows :
         \E rows \in [1..m -> Rows(nc)] :
           loader = [pc |-> "ready", fn |-> "", records |-> <<Header(nc)>> \o rows,
                     out |-> [err |-> "none"]]

CallLoadData ==
    /\ loader.pc = "ready"
    /\ loader' = [loader EXCEPT !.pc = "returned", !.fn = "loadData",
                                !.out = loadData(loader.records)]
    /\ UNCHANGED <<splitter, knn, km, metric, reg, menu>>

CallLoadCSV ==
    /\ loader.pc = "ready"
    /\ loader' = [loader EXCEPT !.pc = "returned", !.fn = "loadCSV",
                                !.out = loadCSV(loader.records)]
    /\ UNCHANGED <<splitter, knn, km, metric, reg, menu>>

CallLoadDataRef ==
    /\ loader.pc = "ready"
    /\ loader' = [loader EXCEPT !.pc = "returned", !.fn = "loadDataRef",
                                !.out = loadDataRef(loader.records)]
    /\ UNCHANGED <<splitter, knn, km, metric, reg, menu>>

CallPerformClassification ==
    /\ loader.pc = "ready"
    /\ loader' = [loader EXCEPT !.pc = "returned", !.fn = "performClassification",
                                !.out = performClassification(loader.records)]
    /\ UNCHANGED <<splitter, knn, km, metric, reg, menu>>

\* loadCSV hands the records after the header to convertToFloat64 (it fails
\* on a file without records).
CallConvertToFloat64Zones ==
    /\ loader.pc = "ready"
    /\ Len(loader.records) > 0
    /\ loader' = [loader EXCEPT !.pc = "returned", !.fn = "convertToFloat64Zones",
                                !.out = convertToFloat64Zones(DataRows(loader.records))]
    /\ UNCHANGED <<splitter, knn, km, metric, reg, menu>>

CallConvertToFloat64Skip ==
    /\ loader.pc = "ready"
    /\ Len(loader.records) > 0
    /\ loader' = [loader EXCEPT !.pc = "returned", !.fn = "convertToFloat64Skip",
                                !.out = convertToFloat64Skip(DataRows(loader.records), {})]
    /\ UNCHANGED <<splitter, knn, km, metric, reg, menu>>

CallConvertToFloat64Zero ==
    /\ loader.pc = "ready"
    /\ Len(loader.records) > 0
    /\ loader' = [loader EXCEPT !.pc = "returned", !.fn = "convertToFloat64Zero",
                                !.out = convertToFloat64Zero(DataRows(loader.records))]
    /\ UNCHANGED <<splitter, knn, km, metric, reg, menu>>

InitLoad ==
    /\ InitLoader
    /\ splitter = Idle /\ knn = Idle /\ km = Idle /\ metric = Idle
    /\ reg = Idle /\ menu = Idle

NextLoad ==
    \/ CallLoadData
    \/ CallLoadCSV
    \/ CallLoadDataRef
    \/ CallPerformClassification
    \/ CallConvertToFloat64Zones
    \/ CallConvertToFloat64Skip
    \/ CallConvertToFloat64Zero

SpecLoad == InitLoad /\ [][NextLoad]_vars

\* The data rows (header excluded) with no field blank after trimming, in
\* file order.
NoBlankRows(records) == SelectSeq(DataRows(records), AllValid)

\* The file has the layout classification.loadCSV reads: four feature columns
\* and a label column in every data row.
LabelledLayout(records) ==
    \A i \in 1..Len(DataRows(records)) : Len(DataRows(records)[i]) >= MinFields

\* C2: whenever a loader returns a dataset, the dataset holds exactly the data
\* rows (header excluded) in which no field is blank after trimming, in file
\* order: as many rows as there are such rows, the i-th one parsed from the
\* i-th such row.  loadCSV is held to this on files of its own layout only.
C2_LoadsExactlyNonBlankRows ==
    (loader.pc = "returned" /\ loader.out.err = "none") =>
      LET want == NoBlankRows(loader.records)
      IN IF loader.fn = "loadData"
         THEN /\ Len(loader.out.points) = Len(want)
              /\ \A i \in 1..Len(want) :
                   loader.out.points[i] = ParseCols(want[i], 1, Len(want[i]))
         ELSE (loader.fn = "loadCSV" /\ LabelledLayout(loader.records)) =>
              /\ Len(loader.out.features) = Len(want)
              /\ Len(loader.out.labels) = Len(want)
              /\ \A i \in 1..Len(want) :
                   /\ loader.out.features[i] = ParseCols(want[i], 0, NumFeatures)
                   /\ loader.out.labels[i] = TrimSpace(want[i][NumFeatures + 1])

\* The same statement for clustering.loadData alone.
C2_LoadDataOnly ==
    (loader.pc = "returned" /\ loader.fn = "loadData") => C2_LoadsExactlyNonBlankRows

\* C12: a loader returns the empty-dataset error ("not enough data"), not an
\* empty dataset, whenever no data row is left once the header is skipped and
\* the rows with a blank field are dropped.
C12_EmptyDatasetIsAnError ==
    (/\ loader.pc = "returned"
     /\ loader.fn \in {"loadData", "loadDataRef"}
     /\ Len(NoBlankRows(loader.records)) = 0) => loader.out.err = "not enough data"

\* The Go column indexes a loader parses as numbers in a data row.
NumericCols(fn, row) ==
    IF fn = "loadData" THEN 1..(Len(row) - 1)
    ELSE IF Len(row) < MinFields THEN {} ELSE 0..(NumFeatures - 1)

\* The cells <<r, c>> of the input (r the number of the data row, counted
\* from 1 after the header, c the Go column index) that hold, in a row
\* without blank fields, something that is not a number where the loader
\* needs one.
Unparsable(fn, records) ==
    {cell \in (1..Len(DataRows(records))) \X (0..(NumFeatures - 1)) :
        LET row == DataRows(records)[cell[1]]
        IN /\ AllValid(row)
           /\ cell[2] \in NumericCols(fn, row)
           /\ ~ParseFloat(TrimSpace(row[cell[2] + 1])).ok}

\* C13: when a numeric field cannot be parsed the loader returns an error, and
\* no dataset, that names the row and the column of the offending field in
\* the input; the row is never passed over silently.
C13_ParseErrorNamesRowAndColumn ==
    (/\ loader.pc = "returned"
     /\ loader.fn \in {"loadData", "performClassification"}
     /\ Unparsable(loader.fn, loader.records) # {}) =>
      /\ loader.out.err = "parse"
      /\ loader.out.row = FirstCell(Unparsable(loader.fn, loader.records))[1]
      /\ loader.out.col = FirstCell(Unparsable(loader.fn, loader.records))[2]

\* The same statement for clustering.loadData alone.
C13_LoadDataOnly ==
    (loader.pc = "returned" /\ loader.fn = "loadData") => C13_ParseErrorNamesRowAndColumn

\* clustering.loadData does return a parse error, with some row and column,
\* whenever a row without blank fields holds an unparsable number.
C13_LoadDataReportsSomeCell ==
    (/\ loader.pc = "returned"
     /\ loader.fn = "loadData"
     /\ Unparsable(loader.fn, loader.records) # {}) => loader.out.err = "parse"

Converters == {"convertToFloat64Zones", "convertToFloat64Skip", "convertToFloat64Zero"}

\* The Go column indexes a converter turns into features.
FeatureCols(fn, row) ==
    IF fn = "convertToFloat64Zones" THEN 1..(Len(row) - 1) ELSE 0..(Len(row) - 1)

\* The data rows in which no feature field is blank.
CompleteRows(fn, records) ==
    SelectSeq(DataRows(records),
              LAMBDA row : \A c \in FeatureCols(fn, row) : TrimSpace(row[c + 1]) # <<>>)

\* C14: the rows of a converted dataset have one common length, and they are
\* the rows of the input that have no blank feature field: a row with a blank
\* field is left out, not kept shorter or with a default value in its place.
C14_RowsHaveOneLength ==
    (/\ loader.pc = "returned"
     /\ loader.fn \in Converters
     /\ loader.out.err = "none") =>
      /\ \A i, j \in 1..Len(loader.out.result) :
            Len(loader.out.result[i]) = Len(loader.out.result[j])
      /\ Len(loader.out.result) = Len(CompleteRows(loader.fn, loader.records))

\* The first half of C14 alone: one common row length.
C14_CommonLengthOnly ==
    (/\ loader.pc = "returned"
     /\ loader.fn \in Converters
     /\ loader.out.err = "none") =>
      \A i, j \in 1..Len(loader.out.result) :
         Len(loader.out.result[i]) = Len(loader.out.result[j])

(***************************************************************************)
(* K-means engine: clustering.kmeans, one action per loop iteration.        *)
(*                                                                          *)
(* A member list (Cluster.Points) holds slices that alias the elements of   *)
(* data; the model keeps, for each member, the Go index of that element, so *)
(* that equal-valued points stay distinguishable.                           *)
(***************************************************************************)
\* The 1e-6 of the convergence test, as 1 / TolInv.
TolInv == 1000000

\* distance(...) > 1e-6 for a distance sqrt(s)/q.
ExceedsTol(dist) ==
    \/ dist.kind = "inf"
    \/ /\ dist.kind = "dist"
       /\ dist.s > 0
       /\ (dist.q < TolInv \/ dist.q * dist.q < dist.s * TolInv * TolInv)

\* A findClosestCluster whose comparison never succeeds: index 0 always.
findClosestClusterWrong(point, centroids) == 0

\* A scan whose comparison is <=: among centroids at the same distance the
\* last one wins.
RECURSIVE ClosestScanTiesLast(_, _, _)
ClosestScanTiesLast(point, centroids, n) ==
    IF n = 0 THEN [minDist |-> Inf, closestIdx |-> 0]
    ELSE LET prev == ClosestScanTiesLast(point, centroids, n - 1)
             dist == distance(point, centroids[n])
         IN IF ~DistLess(prev.minDist, dist)
            THEN [minDist |-> dist, closestIdx |-> n - 1]
            ELSE prev

\* findClosestCluster after the first n centroids have been looked at.
RECURSIVE ClosestScan(_, _, _)
ClosestScan(point, centroids, n) ==
    IF n = 0 THEN [minDist |-> Inf, closestIdx |-> 0]
    ELSE LET prev == ClosestScan(point, centroids, n - 1)
             dist == distance(point, centroids[n])
         IN IF DistLess(dist, prev.minDist)
            THEN [minDist |-> dist, closestIdx |-> n - 1]
            ELSE prev

findClosestCluster(point, centroids) ==
    ClosestScan(point, centroids, Len(centroids)).closestIdx

\* An assignment loop that appends every point to the last cluster.
AssignScanWrong(data, centroids, n) ==
    [i \in 1..Len(centroids) |->
        IF i = Len(centroids) THEN [j \in 1..n |-> j - 1] ELSE <<>>]

\* The assignment loop after the first n data points: each point is appended
\* to the member list of its closest cluster.
RECURSIVE AssignScan(_, _, _)
AssignScan(data, centroids, n) ==
    IF n = 0 THEN [i \in 1..Len(centroids) |-> <<>>]
    ELSE LET members == AssignScan(data, centroids, n - 1)
             closestIdx == findClosestCluster(Pt(data[n]), centroids)
         IN [members EXCEPT ![closestIdx + 1] = Append(@, n - 1)]

\* An assignment loop that stops one point early.
AssignPointsWrong(data, centroids) == AssignScan(data, centroids, Len(data) - 1)

\* The whole assignment loop: for _, point := range data.
AssignPoints(data, centroids) == AssignScan(data, centroids, Len(data))

\* The coordinate-wise sum of the data points listed in idxs, in dims dimensions.
RECURSIVE SumPoints(_, _, _)
SumPoints(data, idxs, dims) ==
    IF idxs = <<>> THEN [i \in 1..dims |-> 0]
    ELSE LET rest == SumPoints(data, Tail(idxs), dims)
         IN [i \in 1..dims |-> rest[i] + data[Head(idxs) + 1][i]]

\* calculateCentroid of a non-empty member list: the coordinate-wise mean.
calculateCentroid(data, idxs) ==
    [c |-> SumPoints(data, idxs, Len(data[idxs[1] + 1])), d |-> Len(idxs)]

\* The update loop: a non-empty cluster's centroid becomes the mean of its
\* members, an empty cluster's centroid stays.
UpdateCentroids(data, centroids, members) ==
    [i \in 1..Len(centroids) |->
        IF Len(members[i]) > 0 THEN calculateCentroid(data, members[i])
        ELSE centroids[i]]

\* A test that is satisfied as soon as one non-empty cluster's centroid
\* stayed in place.
ConvergedWrong(data, centroids, members) ==
    \E i \in 1..Len(centroids) :
        Len(members[i]) > 0 /\
            ~ExceedsTol(distance(centroids[i], calculateCentroid(data, members[i])))

\* converged stays true when no non-empty cluster's centroid moved by more
\* than 1e-6.
Converged(data, centroids, members) ==
    \A i \in 1..Len(centroids) :
        Len(members[i]) > 0 =>
            ~ExceedsTol(distance(centroids[i], calculateCentroid(data, members[i])))

\* Clusters whose member lists are handed out in the reverse order.
MakeClustersWrong(centroids, members) ==
    [i \in 1..Len(centroids) |->
        [Centroid |-> centroids[i], Points |-> members[Len(centroids) + 1 - i]]]

MakeClusters(centroids, members) ==
    [i \in 1..Len(centroids) |-> [Centroid |-> centroids[i], Points |-> members[i]]]

\* A loop condition that lets one pass too many through.
LoopGuardWrong(iteration, maxIterations) == iteration <= maxIterations

\* The condition of the main loop: iteration < maxIterations.
LoopGuard(iteration, maxIterations) == iteration < maxIterations

\* A guard that also refuses more clusters than points.
InvalidArgsWrong(data, k) == Len(data) = 0 \/ k <= 0 \/ k > Len(data)

\* The guard of kmeans.
InvalidArgs(data, k) == Len(data) = 0 \/ k <= 0

\* The data points: two near each other and one far away.
PointVals == {<<0>>, <<1>>, <<9>>}

\* A lopsided dataset: a near group of nine points and one far point. It is
\* clustered with k = 1 or 2 only.
Lopsided == <<<<0>>, <<1>>, <<1>>, <<1>>, <<1>>, <<1>>, <<1>>, <<1>>, <<1>>, <<9>>>>

\* km.randomIdx keeps the k values rand.Intn returned, in draw order.
\* km.result is the returned []Cluster (nil, or the k clusters); km.raised is
\* the error the call surfaced: kmeans has no error result and none of its
\* statements can panic on a non-empty dataset, so no action ever sets it.
InitKm ==
    \E data \in SeqsUpTo(PointVals, MaxPoints) \cup {Lopsided}, k \in (-1)..MaxK,
       maxIterations \in (-1)..MaxIter :
        /\ data = Lopsided => k \in 1..2
        /\ km = [pc |-> "call", data |-> data, k |-> k,
                 maxIterations |-> maxIterations, centroids |-> <<>>,
                 iteration |-> 0, result |-> [nil |-> TRUE, clusters |-> <<>>],
                 raised |-> "none", randomIdx |-> <<>>]

\* The guard and the random initialisation: k draws, with replacement, of a
\* data point copied as a centroid.
KMeansStart ==
    /\ km.pc = "call"
    /\ IF InvalidArgs(km.data, km.k)
       THEN km' = [km EXCEPT !.pc = "returned"]
       ELSE \E randomIdx \in [1..km.k -> 0..(Len(km.data) - 1)] :
              km' = [km EXCEPT !.pc = "loop", !.randomIdx = randomIdx,
                               !.centroids = [i \in 1..km.k |->
                                                Pt(km.data[randomIdx[i] + 1])]]
    /\ UNCHANGED <<splitter, loader, knn, metric, reg, menu>>

\* One pass of the main loop.
KMeansIterate ==
    /\ km.pc = "loop"
    /\ LoopGuard(km.iteration, km.maxIterations)
    /\ LET members == AssignPoints(km.data, km.centroids)
           clusters == MakeClusters(km.centroids, members)
       IN IF Converged(km.data, km.centroids, members)
          THEN km' = [km EXCEPT !.pc = "returned",
                                !.centroids = UpdateCentroids(km.data, @, members),
                                !.result = [nil |-> FALSE, clusters |-> clusters]]
          ELSE km' = [km EXCEPT !.iteration = @ + 1,
                                !.centroids = UpdateCentroids(km.data, @, members)]
    /\ UNCHANGED <<splitter, loader, knn, metric, reg, menu>>

\* The loop ended on the iteration cap: the final cluster assignment.
KMeansFinal ==
    /\ km.pc = "loop"
    /\ ~LoopGuard(km.iteration, km.maxIterations)
    /\ km' = [km EXCEPT !.pc = "returned",
                        !.result = [nil |-> FALSE,
                                    clusters |-> MakeClusters(km.centroids,
                                                   AssignPoints(km.data, km.centroids))]]
    /\ UNCHANGED <<splitter, loader, knn, metric, reg, menu>>

InitKMeans ==
    /\ InitKm
    /\ splitter = Idle /\ loader = Idle /\ knn = Idle /\ metric = Idle
    /\ reg = Idle /\ menu = Idle

NextKMeans == KMeansStart \/ KMeansIterate \/ KMeansFinal

SpecKMeans == InitKMeans /\ [][NextKMeans]_vars

\* The Go indexes of all members, cluster after cluster.
RECURSIVE AllMembers(_)
AllMembers(clusters) ==
    IF clusters = <<>> THEN <<>>
    ELSE Head(clusters).Points \o AllMembers(Tail(clusters))

Increasing(s) == \A i, j \in 1..Len(s) : i < j => s[i] < s[j]

\* C3: for non-empty data and k > 0, on every return path the member lists
\* partition the input (every data element is in exactly one list, the list
\* sizes sum to len(data)) and each list keeps the input order.
C3_MembersPartitionInput ==
    (km.pc = "returned" /\ Len(km.data) > 0 /\ km.k > 0) =>
      LET all == AllMembers(km.result.clusters)
      IN /\ ~km.result.nil
         /\ Len(all) = Len(km.data)
         /\ Range(all) = 0..(Len(km.data) - 1)
         /\ \A i \in 1..Len(km.result.clusters) :
              Increasing(km.result.clusters[i].Points)

\* kmeans returned, on the iteration cap, two non-empty clusters of three points.
C3_WitnessCap ==
    /\ km.pc = "returned"
    /\ Len(km.data) = 3
    /\ km.iteration = km.maxIterations
    /\ \E i, j \in 1..Len(km.result.clusters) :
         /\ i # j
         /\ Len(km.result.clusters[i].Points) = 2
         /\ Len(km.result.clusters[j].Points) = 1

\* kmeans returned on convergence with two points in one cluster.
C3_Witness ==
    /\ km.pc = "returned"
    /\ Len(km.data) = 3
    /\ km.iteration < km.maxIterations
    /\ \E i, j \in 1..Len(km.result.clusters) :
         /\ i # j
         /\ Len(km.result.clusters[i].Points) = 2
         /\ Len(km.result.clusters[j].Points) = 1

Distinct(s) == \A i, j \in 1..Len(s) : s[i] = s[j] => i = j

\* C15: for pairwise distinct points, k = len(data) and maxIterations >= 1,
\* when the k initial draws are pairwise distinct kmeans returns k clusters of
\* exactly one point each, each centroid equal to its single member.
C15_EachPointItsOwnCluster ==
    (/\ km.pc = "returned"
     /\ Len(km.data) > 0
     /\ Distinct(km.data)
     /\ km.k = Len(km.data)
     /\ km.maxIterations >= 1
     /\ Distinct(km.randomIdx)) =>
      /\ ~km.result.nil
      /\ Len(km.result.clusters) = km.k
      /\ \A i \in 1..km.k :
            /\ Len(km.result.clusters[i].Points) = 1
            /\ km.result.clusters[i].Centroid =
                  Pt(km.data[km.result.clusters[i].Points[1] + 1])

\* Three distinct points drawn in another order than the data's, each
\* returned as its own cluster.
C15_Witness ==
    /\ km.pc = "returned"
    /\ km.data = <<<<0>>, <<1>>, <<9>>>>
    /\ km.k = 3
    /\ km.maxIterations >= 1
    /\ km.randomIdx = <<2, 0, 1>>
    /\ km.result.clusters[1].Points = <<2>>

\* The squared distance between data points i and j (Go indexes).
SqDist(data, i, j) == SumSq(Pt(data[i + 1]), Pt(data[j + 1]), Len(data[i + 1]))

\* The ways to split the indexes of data into two well-separated groups: both
\* non-empty, and every distance inside a group less than a quarter of every
\* distance between the groups (which are not 0).
SeparatedGroups(data) ==
    {A \in SUBSET (0..(Len(data) - 1)) :
        LET B == (0..(Len(data) - 1)) \ A
        IN /\ A # {} /\ B # {}
           /\ \A a \in A, b \in B :
                 /\ SqDist(data, a, b) > 0
                 /\ \A G \in {A, B} : \A x, y \in G :
                       16 * SqDist(data, x, y) < SqDist(data, a, b)}

\* The member sets of the returned clusters.
MemberSets == {Range(km.result.clusters[i].Points) : i \in 1..Len(km.result.clusters)}

\* C16, granting the loop at least one pass: for two well-separated groups and
\* k = 2, whatever the two initial draws, the returned clusters are exactly
\* the two groups.
C16_SeparatesTwoGroups ==
    (km.pc = "returned" /\ km.k = 2 /\ km.maxIterations >= 1) =>
      \A A \in SeparatedGroups(km.data) :
         MemberSets = {A, (0..(Len(km.data) - 1)) \ A}

\* The same with no condition on maxIterations: with maxIterations = 0 the
\* clusters are those of the initial draws.
C16_SeparatesWithoutAPass ==
    (km.pc = "returned" /\ km.k = 2 /\ ~km.result.nil) =>
      \A A \in SeparatedGroups(km.data) :
         MemberSets = {A, (0..(Len(km.data) - 1)) \ A}

\* What does hold: when the two draws fall in different groups and the loop
\* makes at least one pass, the returned clusters are the two groups, and the
\* loop converges on its second pass at the latest.
C16_SeparatesFromDifferentGroups ==
    (km.pc = "returned" /\ km.k = 2 /\ km.maxIterations >= 1) =>
      \A A \in SeparatedGroups(km.data) :
         ((km.randomIdx[1] \in A) # (km.randomIdx[2] \in A)) =>
            /\ MemberSets = {A, (0..(Len(km.data) - 1)) \ A}
            /\ km.iteration <= 1

\* Both draws in the large near group of Lopsided: kmeans converged with the
\* far point in one cluster with eight near points.
C16_LocalOptimum ==
    /\ km.pc = "returned"
    /\ km.k = 2
    /\ km.data = Lopsided
    /\ km.randomIdx = <<0, 1>>
    /\ km.iteration < km.maxIterations
    /\ MemberSets = {{0}, 1..9}

\* C23: a pass of the loop returns exactly when no centroid moved by more
\* than 1e-6 in its update (the centroid of an empty cluster does not move);
\* it then returns the clusters built in that pass, the centroids they were
\* assigned against and the members assigned, with no further pass; when a
\* centroid moved by more the pass does not return.
C23_ReturnsOnFirstStillPass ==
    [][(km.pc = "loop" /\ km.iteration < km.maxIterations) =>
         LET still == \A i \in 1..Len(km.centroids) :
                         ~ExceedsTol(distance(km.centroids[i], km'.centroids[i]))
         IN /\ (km'.pc = "returned") <=> still
            /\ still =>
                 /\ km'.iteration = km.iteration
                 /\ ~km'.result.nil
                 /\ \A i \in 1..Len(km.centroids) :
                       /\ km'.result.clusters[i].Centroid = km.centroids[i]
                       /\ km'.result.clusters[i].Points
                            = AssignPoints(km.data, km.centroids)[i]
            /\ ~still => km'.pc = "loop" /\ km'.iteration = km.iteration + 1]_vars

\* kmeans returned from its second pass, the first in which no centroid
\* moved, with a pass to spare.
C23_Witness ==
    /\ km.pc = "returned"
    /\ km.data = <<<<0>>, <<9>>, <<1>>>>
    /\ km.k = 2
    /\ km.randomIdx = <<0, 1>>
    /\ km.iteration = 1
    /\ km.maxIterations = 2
    /\ km.result.clusters[1].Points = <<0, 2>>

\* Point idx of the data is in cluster c of the returned clusters, and no
\* returned Centroid is closer to it than that of c, those of a lower index
\* being strictly farther.
InNearest(idx, c) ==
    LET cl == km.result.clusters
        dist(j) == distance(Pt(km.data[idx + 1]), cl[j].Centroid)
    IN /\ \A j \in 1..Len(cl) : ~DistLess(dist(j), dist(c))
       /\ \A j \in 1..(c - 1) : DistLess(dist(c), dist(j))

\* kmeans returned from the code after the loop, not from inside it.
CapPath == km.pc = "returned" /\ ~km.result.nil /\ km.iteration >= km.maxIterations

\* C24: when the loop ends on the iteration cap, the step that follows makes
\* no further pass of the loop and one assignment against the centroids of
\* the last update, which are the returned Centroids; every point is then
\* returned once, in the cluster of its nearest returned Centroid.
C24_CapPathAssignsAgainstFinalCentroids ==
    /\ [](CapPath =>
            /\ \A i \in 1..km.k : km.result.clusters[i].Centroid = km.centroids[i]
            /\ \A idx \in 0..(Len(km.data) - 1) :
                  /\ \E c \in 1..km.k : idx \in Range(km.result.clusters[c].Points)
                  /\ \A c \in 1..km.k :
                        idx \in Range(km.result.clusters[c].Points) => InNearest(idx, c)
            /\ Len(AllMembers(km.result.clusters)) = Len(km.data))
    /\ [][(km.pc = "loop" /\ km.iteration >= km.maxIterations) =>
            /\ km'.pc = "returned"
            /\ km'.iteration = km.iteration
            /\ km'.centroids = km.centroids]_vars

\* Two passes did not converge; the final assignment put points 0 and 1 with
\* the centroid 1/2 and point 9 with the centroid 9.
C24_Witness ==
    /\ CapPath
    /\ km.data = <<<<9>>, <<0>>, <<1>>>>
    /\ km.k = 2
    /\ km.maxIterations = 1
    /\ km.randomIdx = <<1, 1>>
    /\ MemberSets = {{0}, {1, 2}}

\* C28: every call of kmeans returns; the loop body runs at most
\* max(maxIterations, 0) times; and a call with non-empty data and k > 0
\* returns exactly k clusters.
C28_KMeansTerminates ==
    /\ <>(km.pc = "returned")
    /\ [](km.iteration <= (IF km.maxIterations > 0 THEN km.maxIterations ELSE 0))
    /\ []((km.pc = "returned" /\ Len(km.data) > 0 /\ km.k > 0) =>
             ~km.result.nil /\ Len(km.result.clusters) = km.k)

\* A call whose two passes did not converge returned its two clusters after
\* the second pass.
C28_Witness ==
    /\ km.pc = "returned"
    /\ km.data = <<<<0>>, <<9>>, <<1>>>>
    /\ km.k = 2
    /\ km.randomIdx = <<0, 0>>
    /\ km.maxIterations = 2
    /\ km.iteration = 2
    /\ Len(km.result.clusters) = 2

\* C29: on both return paths every returned point is a member of the
\* cluster whose returned Centroid is nearest to it, the lowest index winning
\* ties: the returned member lists are the assignment against the returned
\* Centroids.
C29_MembersMatchReturnedCentroids ==
    (km.pc = "returned" /\ ~km.result.nil) =>
       /\ Len(AllMembers(km.result.clusters)) = Len(km.data)
       /\ \A idx \in 0..(Len(km.data) - 1) :
             /\ \E c \in 1..km.k : idx \in Range(km.result.clusters[c].Points)
             /\ \A c \in 1..km.k :
                   idx \in Range(km.result.clusters[c].Points) => InNearest(idx, c)

\* kmeans returned by convergence: the Centroids of the returned clusters are
\* those the members were assigned against, while the loop's own centroids
\* are already the means.
C29_Witness ==
    /\ km.pc = "returned"
    /\ km.iteration < km.maxIterations
    /\ km.data = <<<<0>>, <<1>>, <<9>>>>
    /\ km.k = 2
    /\ km.randomIdx = <<2, 1>>
    /\ km.result.clusters[1].Points = <<2>>
    /\ km.result.clusters[2].Points = <<0, 1>>

\* The passes the loop can still make, plus the steps around it: a natural
\* number that every step of a call makes smaller.
Remaining ==
    LET cap == IF km.maxIterations > 0 THEN km.maxIterations ELSE 0
    IN IF km.pc = "returned" THEN 0
       ELSE IF km.pc = "loop" THEN 1 + cap - km.iteration
       ELSE 2 + cap

\* Termination over every input of SpecKMeans, without fairness: a call that
\* has not returned is at the guard or in the loop, where one of the three
\* steps can be taken, and every step lowers Remaining, which is never
\* negative.
C28_EveryStepNearsReturn ==
    /\ [](Remaining >= 0 /\ km.pc \in {"call", "loop", "returned"})
    /\ [][Remaining' < Remaining]_vars

\* The calls whose termination is checked as a liveness property: no data or
\* three points, k and maxIterations from -1 to 2.  kmeans runs to completion
\* on the calling thread, so a step that can be taken is taken (weak
\* fairness).
LiveData == {<<>>, <<<<0>>, <<9>>, <<1>>>>}
LiveArgs == (-1)..2

InitKMeansLive ==
    /\ \E data \in LiveData, k \in LiveArgs, maxIterations \in LiveArgs :
          km = [pc |-> "call", data |-> data, k |-> k,
                maxIterations |-> maxIterations, centroids |-> <<>>,
                iteration |-> 0, result |-> [nil |-> TRUE, clusters |-> <<>>],
                raised |-> "none", randomIdx |-> <<>>]
    /\ splitter = Idle /\ loader = Idle /\ knn = Idle /\ metric = Idle
    /\ reg = Idle /\ menu = Idle

SpecKMeansLive == InitKMeansLive /\ [][NextKMeans]_vars /\ WF_vars(NextKMeans)

(***************************************************************************)
(* The assignment step on its own: clustering.findClosestCluster and the    *)
(* assignToClusters of the zones program, on points and centroids of one or *)
(* two dimensions.                                                          *)
(***************************************************************************)
\* euclidean of the zones program: no length check; `for i := range a` reads
\* b[i], out of range when a is longer than b.
euclidean(a, b) ==
    IF Len(a) > Len(b) THEN Panic
    ELSE Dist(SumSq(Pt(a), Pt(b), Len(a)), 1)

\* The inner loop of assignToClusters after the first n centroids; minDist
\* starts at math.MaxFloat64, above every finite distance of the model and
\* below +Inf.
RECURSIVE MinIndexScan(_, _, _)
MinIndexScan(point, centroids, n) ==
    IF n = 0 THEN [minDist |-> [kind |-> "maxfloat"], minIndex |-> 0, panic |-> FALSE]
    ELSE LET prev == MinIndexScan(point, centroids, n - 1)
             dist == euclidean(point, centroids[n])
         IN IF prev.panic \/ dist = Panic THEN [prev EXCEPT !.panic = TRUE]
            ELSE IF (IF prev.minDist.kind = "maxfloat" THEN dist.kind = "dist"
                     ELSE DistLess(dist, prev.minDist))
                 THEN [minDist |-> dist, minIndex |-> n - 1, panic |-> FALSE]
                 ELSE prev

\* assignToClusters: the index of the closest centroid for every point.
assignToClusters(data, centroids) ==
    IF \E i \in 1..Len(data) : MinIndexScan(data[i], centroids, Len(centroids)).panic
    THEN Panic
    ELSE [kind |-> "assignments",
          idx |-> [i \in 1..Len(data) |->
                     MinIndexScan(data[i], centroids, Len(centroids)).minIndex]]

\* The coordinate-wise sum, in dim dimensions, of the points whose assignment
\* is cluster, over the first n points.
RECURSIVE SumAssigned(_, _, _, _, _)
SumAssigned(data, assignments, cluster, dim, n) ==
    IF n = 0 THEN [d \in 1..dim |-> 0]
    ELSE LET rest == SumAssigned(data, assignments, cluster, dim, n - 1)
         IN IF assignments[n] = cluster
            THEN [d \in 1..dim |-> rest[d] + data[n][d]]
            ELSE rest

\* updateCentroids of the zones program: k fresh zero vectors of
\* dim = len(data[0]) coordinates, the assigned points added in, and the sum
\* divided by the count where the count is positive; point[d] is out of range
\* for a point shorter than data[0].
updateCentroids(data, assignments, k) ==
    LET dim == Len(data[1])
    IN IF \E i \in 1..Len(data) : Len(data[i]) < dim THEN Panic
       ELSE [kind |-> "centroids",
             centroids |->
               [j \in 1..k |->
                  LET counts == Cardinality({i \in 1..Len(data) : assignments[i] = j - 1})
                  IN [c |-> SumAssigned(data, assignments, j - 1, dim, Len(data)),
                      d |-> IF counts > 0 THEN counts ELSE 1]]]

\* One turn of the loop of the zones program: assignToClusters, then
\* updateCentroids with k = len(centroids).
zonesIteration(data, centroids) ==
    LET assigned == assignToClusters(data, centroids)
    IN IF assigned = Panic THEN Panic
       ELSE LET updated == updateCentroids(data, assigned.idx, Len(centroids))
            IN IF updated = Panic THEN Panic
               ELSE [kind |-> "iteration", idx |-> assigned.idx,
                     centroids |-> updated.centroids]

\* The points and centroids of the assignment step.
AssignVecs == {<<0>>, <<1>>, <<0, 0>>, <<0, 1>>}

InitAssign ==
    \E data \in UNION {[1..m -> AssignVecs] : m \in 1..2},
       centroids \in UNION {[1..m -> AssignVecs] : m \in 1..MaxK} :
        /\ km = [pc |-> "call", fn |-> "none", data |-> data,
                 centroids |-> centroids, out |-> Idle]
        /\ splitter = Idle /\ loader = Idle /\ knn = Idle /\ metric = Idle
        /\ reg = Idle /\ menu = Idle

\* findClosestCluster for every point of data, as the assignment loop of
\* kmeans calls it.
CallFindClosestCluster ==
    /\ km.pc = "call"
    /\ km' = [km EXCEPT !.pc = "returned", !.fn = "findClosestCluster",
                        !.out = [kind |-> "assignments",
                                 idx |-> [i \in 1..Len(km.data) |->
                                            findClosestCluster(Pt(km.data[i]),
                                               [j \in 1..Len(km.centroids) |->
                                                   Pt(km.centroids[j])])]]]
    /\ UNCHANGED <<splitter, loader, knn, metric, reg, menu>>

CallAssignToClusters ==
    /\ km.pc = "call"
    /\ km' = [km EXCEPT !.pc = "returned", !.fn = "assignToClusters",
                        !.out = assignToClusters(km.data, km.centroids)]
    /\ UNCHANGED <<splitter, loader, knn, metric, reg, menu>>

CallZonesIteration ==
    /\ km.pc = "call"
    /\ km' = [km EXCEPT !.pc = "returned", !.fn = "zonesIteration",
                        !.out = zonesIteration(km.data, km.centroids)]
    /\ UNCHANGED <<splitter, loader, knn, metric, reg, menu>>

NextAssign == CallFindClosestCluster \/ CallAssignToClusters \/ CallZonesIteration

SpecAssign == InitAssign /\ [][NextAssign]_vars

\* The distance the routine at hand measures between point i and centroid j.
AssignDist(i, j) ==
    IF km.fn = "findClosestCluster"
    THEN distance(Pt(km.data[i]), Pt(km.centroids[j]))
    ELSE euclidean(km.data[i], km.centroids[j])

\* C21: the index chosen for a point is that of a centroid at minimum
\* distance from it: no centroid is closer, and every centroid of a lower
\* index is farther; when every distance is +Inf the index is 0.
C21_ArgminLowestIndex ==
    (km.pc = "returned" /\ km.out.kind = "assignments") =>
      \A i \in 1..Len(km.data) :
         LET c == km.out.idx[i] + 1
         IN /\ c \in 1..Len(km.centroids)
            /\ \A j \in 1..Len(km.centroids) : ~DistLess(AssignDist(i, j), AssignDist(i, c))
            /\ \A j \in 1..(c - 1) : DistLess(AssignDist(i, c), AssignDist(i, j))
            /\ (\A j \in 1..Len(km.centroids) : AssignDist(i, j) = Inf) => c = 1

\* A point whose first centroid is at +Inf and whose second and third are
\* at the same distance took the second; the other point took the first.
C21_Witness ==
    /\ km.pc = "returned" /\ km.fn = "findClosestCluster"
    /\ km.data = <<<<0, 0>>, <<1>>>>
    /\ km.centroids = <<<<1>>, <<0, 1>>, <<0, 1>>>>
    /\ km.out.idx = <<1, 0>>

\* Two centroids are the same point: equal after cross-multiplication.
SamePoint(p, q) ==
    /\ Len(p.c) = Len(q.c)
    /\ \A i \in 1..Len(p.c) : p.c[i] * q.d = q.c[i] * p.d

\* C22: after the update step a centroid whose cluster received no points
\* has exactly its previous value, and a centroid with assigned points is the
\* coordinate-wise mean of those points.
C22_EmptyClusterKeepsCentroid ==
    (km.pc = "returned" /\ km.out.kind = "iteration") =>
      \A j \in 1..Len(km.centroids) :
         LET members == {i \in 1..Len(km.data) : km.out.idx[i] = j - 1}
         IN IF members = {}
            THEN SamePoint(km.out.centroids[j], Pt(km.centroids[j]))
            ELSE \A d \in 1..Len(km.data[1]) :
                   km.out.centroids[j].c[d] * Cardinality(members)
                     = km.out.centroids[j].d * SumOver([i \in members |-> km.data[i][d]], members)

\* The means alone, which updateCentroids of the zones program computes.
C22_NonEmptyClusterIsMean ==
    (km.pc = "returned" /\ km.out.kind = "iteration") =>
      \A j \in 1..Len(km.centroids) :
         LET members == {i \in 1..Len(km.data) : km.out.idx[i] = j - 1}
         IN members # {} =>
              \A d \in 1..Len(km.data[1]) :
                 km.out.centroids[j].c[d] * Cardinality(members)
                   = km.out.centroids[j].d * SumOver([i \in members |-> km.data[i][d]], members)

\* The same in kmeans of clustering.go, where it holds: one pass of the loop
\* leaves the centroid of an empty cluster as it was and sets every other
\* centroid to the mean of its members.
C22_KMeansUpdate ==
    [][(km.pc = "loop" /\ km.iteration < km.maxIterations) =>
         LET members == AssignPoints(km.data, km.centroids)
         IN \A j \in 1..Len(km.centroids) :
               IF Len(members[j]) = 0
               THEN km'.centroids[j] = km.centroids[j]
               ELSE km'.centroids[j] = calculateCentroid(km.data, members[j])]_vars

\* Both centroids of the zones loop were the point [1]: the second cluster
\* got no point and its centroid came back as [0].
C22_ZeroedCentroid ==
    /\ km.pc = "returned" /\ km.fn = "zonesIteration"
    /\ km.data = <<<<1>>, <<1>>>>
    /\ km.centroids = <<<<1>>, <<1>>>>
    /\ km.out.idx = <<0, 0>>
    /\ km.out.centroids[2] = [c |-> <<0>>, d |-> 1]

(***************************************************************************)
(* KNN classifier: classification.knnPredict / computeAccuracy and the      *)
(* cheatsheet's KNNClassifier (Fit, Predict, PredictBatch) with             *)
(* calculateAccuracy.  All feature vectors of this specification have one   *)
(* length, as the rows of a loaded dataset do.                              *)
(***************************************************************************)
\* The distance routine a prediction routine calls: knnPredict its package's
\* euclideanDistance, KNNClassifier.Predict the cheatsheet's.
Measure(fn, a, b) ==
    IF fn = "knnPredict" THEN euclideanDistance(a, b) ELSE euclideanDistanceRef(a, b)

\* The neighbor list before sorting: one entry per training row, in training
\* order.
RankNeighbors(fn, trainX, trainY, testPoint) ==
    [j \in 1..Len(trainX) |->
        [dist |-> Measure(fn, testPoint, trainX[j]), label |-> trainY[j]]]

Ascending(neighbors) ==
    \A i, j \in 1..Len(neighbors) :
        i < j => ~DistLess(neighbors[j].dist, neighbors[i].dist)

\* The ways to put entry e into an ascending list so that it stays ascending.
Inserts(sorted, e) ==
    {SubSeq(sorted, 1, i) \o <<e>> \o SubSeq(sorted, i + 1, Len(sorted)) :
        i \in {i \in 0..Len(sorted) :
                 /\ i = 0 \/ ~DistLess(e.dist, sorted[i].dist)
                 /\ i = Len(sorted) \/ ~DistLess(sorted[i + 1].dist, e.dist)}}

\* Every ascending arrangement of the first n entries.
RECURSIVE Arrangements(_, _)
Arrangements(neighbors, n) ==
    IF n = 0 THEN {<<>>}
    ELSE UNION {Inserts(sorted, neighbors[n]) : sorted \in Arrangements(neighbors, n - 1)}

\* A knnPredict that forgets to sort: the neighbours stay in training order.
SortSliceWrong(neighbors) == {[i \in 1..Len(neighbors) |-> neighbors[i]]}

\* sort.Slice by dist: the result holds the same entries in ascending order;
\* sort.Slice is not stable, so entries of equal distance may come out in
\* any order.
SortSlice(neighbors) == Arrangements(neighbors, Len(neighbors))

\* A vote loop without the bound k: every neighbour votes.
VotersAll(neighbors, k) == Len(neighbors)

\* A vote loop that runs one neighbour too far (j <= k).
VotersWrong(neighbors, k) ==
    IF k + 1 <= 0 THEN 0 ELSE IF k + 1 < Len(neighbors) THEN k + 1 ELSE Len(neighbors)

\* for j := 0; j < k && j < len(neighbors); j++: how many neighbours vote.
Voters(neighbors, k) ==
    IF k <= 0 THEN 0 ELSE IF k < Len(neighbors) THEN k ELSE Len(neighbors)

\* votes := make(map[string]int): no key yet.
NoVotes == [l \in {} |-> 0]

\* votes[label]++ over the voters: the map from each label seen to its count.
Votes(neighbors, k) ==
    LET m == Voters(neighbors, k)
    IN [l \in {neighbors[j].label : j \in 1..m} |->
          Cardinality({j \in 1..m : neighbors[j].label = l})]

\* The orders in which `range votes` can visit the keys of the map: Go
\* randomises map iteration, so any order, anew in every loop.
MapOrders(votes) ==
    LET keys == DOMAIN votes
    IN {order \in [1..Cardinality(keys) -> keys] :
          \A i, j \in 1..Cardinality(keys) : order[i] = order[j] => i = j}

\* A selection loop that takes every key it visits, whatever its count.
SelectScanWrong(votes, order, n) ==
    IF n = 0 THEN [maxVotes |-> 0, chosen |-> ""]
    ELSE [maxVotes |-> votes[order[n]], chosen |-> order[n]]

\* The selection loop after the first n keys of the iteration order.
RECURSIVE SelectScan(_, _, _)
SelectScan(votes, order, n) ==
    IF n = 0 THEN [maxVotes |-> 0, chosen |-> ""]
    ELSE LET prev == SelectScan(votes, order, n - 1)
             count == votes[order[n]]
         IN IF count > prev.maxVotes
            THEN [maxVotes |-> count, chosen |-> order[n]]
            ELSE prev

\* The labels the selection loop can end with, over all iteration orders.
SelectLabel(votes) ==
    {SelectScan(votes, order, Len(order)).chosen : order \in MapOrders(votes)}

\* One pass of knnPredict's outer loop: the sorted neighbours, the map of
\* votes and the label.
\* A distance that panics (classification.euclideanDistance on a test point
\* longer than a training row) ends the call: failed, nothing returned.
PredictOne(fn, trainX, trainY, testPoint, k) ==
    IF \E j \in 1..Len(trainX) : Measure(fn, testPoint, trainX[j]) = Panic
    THEN {[neighbors |-> <<>>, votes |-> NoVotes, chosen |-> "", failed |-> TRUE]}
    ELSE UNION {{[neighbors |-> nb, votes |-> Votes(nb, k), chosen |-> l,
                  failed |-> FALSE] :
                   l \in SelectLabel(Votes(nb, k))} :
                  nb \in SortSlice(RankNeighbors(fn, trainX, trainY, testPoint))}

\* A whole batch: each test point on its own, in order, up to the first one
\* that fails.
RECURSIVE PredictAll(_, _, _, _, _)
PredictAll(fn, trainX, trainY, testX, k) ==
    IF testX = <<>> THEN {<<>>}
    ELSE {IF one.failed THEN <<one>> ELSE <<one>> \o rest :
            one \in PredictOne(fn, trainX, trainY, Head(testX), k),
            rest \in PredictAll(fn, trainX, trainY, Tail(testX), k)}

\* classification.knnPredict.
knnPredict(trainX, trainY, testX, k) ==
    PredictAll("knnPredict", trainX, trainY, testX, k)

\* KNNClassifier.Predict: "" without training data, else the same steps with
\* the length-checking distance.
Predict(K, TrainData, features) ==
    IF TrainData.nil
    THEN {[neighbors |-> <<>>, votes |-> NoVotes, chosen |-> "", failed |-> FALSE]}
    ELSE PredictOne("Predict", TrainData.Features, TrainData.Labels,
                    features, K)

\* KNNClassifier.PredictBatch: predictions[i] = Predict(Features[i]), each
\* call on its own.
RECURSIVE PredictBatch(_, _, _)
PredictBatch(K, TrainData, Features) ==
    IF Features = <<>> THEN {<<>>}
    ELSE {<<label>> \o rest :
            label \in {one.chosen : one \in Predict(K, TrainData, Head(Features))},
            rest \in PredictBatch(K, TrainData, Tail(Features))}

\* The labels a batch of calls returned.
Predictions(calls) == [i \in 1..Len(calls) |-> calls[i].chosen]

KnnVals == {<<0>>, <<1>>, <<2>>}

\* The query of a single call: a vector like the training rows or one with a
\* coordinate more.
QueryVals == KnnVals \cup {<<0, 1>>}
Samples == [x : KnnVals, y : Labels]

Dataset(rows) ==
    [nil |-> FALSE,
     Features |-> [i \in 1..Len(rows) |-> rows[i].x],
     Labels |-> [i \in 1..Len(rows) |-> rows[i].y]]

NoData == [nil |-> TRUE, Features |-> <<>>, Labels |-> <<>>]

\* The test batches: the dataset itself or one row.
Batches(data) == {data} \cup {Dataset(<<r>>) : r \in Samples}

InitKnn ==
    \E rows \in SeqsUpTo(Samples, MaxTrain), k \in (-1)..MaxNeighbors :
        knn = [pc |-> "new", K |-> k, data |-> Dataset(rows), TrainData |-> NoData,
               fn |-> "", test |-> NoData, neighbors |-> <<>>,
               votes |-> NoVotes, predictions |-> <<>>, accuracy |-> NaN]

\* NewKNNClassifier(k) then Fit(data): the model keeps the training data.
Fit ==
    /\ knn.pc = "new"
    /\ knn' = [knn EXCEPT !.pc = "fit", !.TrainData = knn.data]
    /\ UNCHANGED <<splitter, loader, km, metric, reg, menu>>

Queries(testX) == [nil |-> FALSE, Features |-> testX, Labels |-> <<>>]

\* The training data the last prediction call worked on.
TrainOf(c) == IF c.fn = "knnPredict" THEN c.data ELSE c.TrainData

\* KNNClassifier.Predict(features) on a fitted or an unfitted classifier.  The
\* sorted neighbours of the call are kept next to the label it returned.
CallPredict ==
    /\ knn.pc \in {"new", "fit"}
    /\ \E features \in QueryVals :
         \E one \in Predict(knn.K, knn.TrainData, features) :
           knn' = [knn EXCEPT !.pc = IF one.failed THEN "panicked" ELSE "predicted",
                              !.fn = "Predict",
                              !.test = Queries(<<features>>),
                              !.neighbors = one.neighbors,
                              !.votes = one.votes,
                              !.predictions = <<one.chosen>>]
    /\ UNCHANGED <<splitter, loader, km, metric, reg, menu>>

\* classification.knnPredict(trainX, trainY, testX, k) for one test point, as
\* Run calls it on the user's input; the sorted neighbours are kept too.  A
\* call that panics returns no predictions.
CallKnnPredict ==
    /\ knn.pc = "new"
    /\ \E testPoint \in QueryVals :
         \E calls \in knnPredict(knn.data.Features, knn.data.Labels,
                                 <<testPoint>>, knn.K) :
           knn' = [knn EXCEPT !.pc = IF calls[1].failed THEN "panicked" ELSE "predicted",
                              !.fn = "knnPredict",
                              !.test = Queries(<<testPoint>>),
                              !.neighbors = calls[1].neighbors,
                              !.votes = calls[1].votes,
                              !.predictions = IF calls[1].failed THEN <<>>
                                              ELSE Predictions(calls)]
    /\ UNCHANGED <<splitter, loader, km, metric, reg, menu>>

\* The same call made once more with the same arguments: sort.Slice is a
\* function of its input, so the neighbours come out as before; the map of
\* votes is built and iterated anew.
PredictAgain ==
    /\ knn.pc = "predicted"
    /\ knn.fn \in {"Predict", "knnPredict"}
    /\ ~TrainOf(knn).nil
    /\ \E label \in SelectLabel(Votes(knn.neighbors, knn.K)) :
         knn' = [knn EXCEPT !.votes = Votes(knn.neighbors, knn.K),
                            !.predictions = <<label>>]
    /\ UNCHANGED <<splitter, loader, km, metric, reg, menu>>

\* KNNClassifier.PredictBatch(test) on a fitted classifier.
CallPredictBatch ==
    /\ knn.pc = "fit"
    /\ \E test \in Batches(knn.data) :
         \E predictions \in PredictBatch(knn.K, knn.TrainData, test.Features) :
           knn' = [knn EXCEPT !.pc = "predicted", !.fn = "PredictBatch",
                              !.test = test, !.predictions = predictions]
    /\ UNCHANGED <<splitter, loader, km, metric, reg, menu>>

\* calculateAccuracy(test.Labels, predictions) after PredictBatch.
CallCalculateAccuracyOfBatch ==
    /\ knn.pc = "predicted"
    /\ knn.fn = "PredictBatch"
    /\ knn' = [knn EXCEPT !.pc = "scored",
                          !.accuracy = calculateAccuracy(knn.test.Labels,
                                                         knn.predictions)]
    /\ UNCHANGED <<splitter, loader, km, metric, reg, menu>>

InitKNN ==
    /\ InitKnn
    /\ splitter = Idle /\ loader = Idle /\ km = Idle /\ metric = Idle
    /\ reg = Idle /\ menu = Idle

NextKNN ==
    \/ Fit
    \/ CallPredict
    \/ CallKnnPredict
    \/ PredictAgain
    \/ CallPredictBatch
    \/ CallCalculateAccuracyOfBatch

SpecKNN == InitKNN /\ [][NextKNN]_vars

\* The number of the first m neighbours that carry label l.
CountOf(neighbors, m, l) == Cardinality({j \in 1..m : neighbors[j].label = l})

\* The count of a returned label, "" counting for nothing.
CountOfReturned(neighbors, m, got) == IF got = "" THEN 0 ELSE CountOf(neighbors, m, got)

\* How often entry e occurs in a neighbor list.
Occurrences(neighbors, e) == Cardinality({j \in 1..Len(neighbors) : neighbors[j] = e})

\* The query of the last call has the length of every training row.
QueryFits ==
    \A j \in 1..Len(TrainOf(knn).Features) :
       Len(knn.test.Features[1]) = Len(TrainOf(knn).Features[j])

\* A single prediction call has returned, its query one that fits.
SingleCall ==
    /\ knn.pc = "predicted"
    /\ knn.fn \in {"Predict", "knnPredict"}
    /\ QueryFits

\* The squared distance from the query of the last call to training row j.
QueryDist(j) == SumSq(Pt(knn.test.Features[1]), Pt(TrainOf(knn).Features[j]), 1)

\* C4: the neighbours of a call are the training set sorted by ascending
\* distance, and among the first min(k, N) of them a label whose count is
\* strictly greater than every other label's is the one returned, and no
\* label has a greater count than the returned one.
C4_MajorityLabelReturned ==
    SingleCall =>
      LET train == TrainOf(knn)
          nb == knn.neighbors
          m == IF knn.K < Len(nb) THEN knn.K ELSE Len(nb)
          got == knn.predictions[1]
      IN /\ Len(nb) = Len(train.Features)
         /\ Ascending(nb)
         /\ \A j \in 1..Len(nb) :
              LET e == [dist |-> Dist(QueryDist(j), 1), label |-> train.Labels[j]]
              IN Occurrences(nb, e) =
                   Cardinality({i \in 1..Len(nb) :
                                  /\ QueryDist(i) = QueryDist(j)
                                  /\ train.Labels[i] = train.Labels[j]})
         /\ \A l \in Labels :
              (\A o \in Labels \ {l} : CountOf(nb, m, l) > CountOf(nb, m, o)) => got = l
         /\ \A l \in Labels : CountOf(nb, m, l) <= CountOfReturned(nb, m, got)

\* knnPredict with k = 3 on three rows: two votes against one, the majority
\* label returned.
C4_Witness ==
    /\ SingleCall
    /\ knn.fn = "knnPredict"
    /\ knn.K = 3
    /\ Len(knn.neighbors) = 3
    /\ CountOf(knn.neighbors, 3, "A") = 1
    /\ CountOf(knn.neighbors, 3, "B") = 2
    /\ knn.predictions = <<"B">>

PairwiseDistinct(features) ==
    \A i, j \in 1..Len(features) : features[i] = features[j] => i = j

\* C5: with k = 1 and a non-empty training set of pairwise distinct points,
\* the returned label is the label of a training point at minimum distance
\* from the query.
C5_NearestLabelReturned ==
    (/\ SingleCall
     /\ knn.K = 1
     /\ ~TrainOf(knn).nil
     /\ Len(TrainOf(knn).Features) > 0
     /\ PairwiseDistinct(TrainOf(knn).Features)) =>
      \E j \in 1..Len(TrainOf(knn).Features) :
         /\ \A i \in 1..Len(TrainOf(knn).Features) : QueryDist(j) <= QueryDist(i)
         /\ knn.predictions[1] = TrainOf(knn).Labels[j]

\* k = 1 on three distinct points, the nearest one last in training order and
\* the only one of its label.
C5_Witness ==
    /\ SingleCall
    /\ knn.fn = "knnPredict"
    /\ knn.K = 1
    /\ knn.data.Features = <<<<2>>, <<1>>, <<0>>>>
    /\ knn.data.Labels = <<"A", "A", "B">>
    /\ knn.test.Features = <<<<0>>>>
    /\ knn.predictions = <<"B">>

\* The accuracy is exactly 1.0.
IsOne(x) == x.kind = "frac" /\ x.num = x.den

\* PredictBatch was called with the (non-empty) training set as the test set,
\* k = 1, and its predictions scored.  (On an empty set the score is 0/0.)
SelfTest ==
    /\ knn.pc = "scored"
    /\ knn.fn = "PredictBatch"
    /\ knn.test = knn.TrainData
    /\ knn.K = 1
    /\ Len(knn.TrainData.Features) > 0

\* C6 as stated: whenever the test set is the training set (some rows) and
\* k = 1, PredictBatch followed by calculateAccuracy yields accuracy 1.0.
C6_SelfTestIsPerfect == SelfTest => IsOne(knn.accuracy)

\* Rows with equal feature vectors carry equal labels.
ConsistentLabels(d) ==
    \A i, j \in 1..Len(d.Features) : d.Features[i] = d.Features[j] => d.Labels[i] = d.Labels[j]

\* C6 amended: when the test set is the training set, k = 1, the set is not
\* empty and rows with equal feature vectors carry equal labels, every query
\* is predicted with its own label and the accuracy is 1.0.
C6_ConsistentSelfTestIsPerfect ==
    (SelfTest /\ ConsistentLabels(knn.TrainData)) =>
      /\ knn.predictions = knn.TrainData.Labels
      /\ IsOne(knn.accuracy)

\* A self-test on three rows of both labels, two of them equal rows.
C6_Witness ==
    /\ SelfTest
    /\ ConsistentLabels(knn.TrainData)
    /\ knn.TrainData.Features = <<<<1>>, <<2>>, <<1>>>>
    /\ knn.TrainData.Labels = <<"A", "B", "A">>
    /\ IsOne(knn.accuracy)

\* C7: two Predict calls with the same k, the same training data and the same
\* query return the same label.
C7_PredictIsPure ==
    [][(/\ SingleCall
        /\ knn'.pc = "predicted"
        /\ knn'.fn = knn.fn
        /\ knn'.K = knn.K
        /\ TrainOf(knn') = TrainOf(knn)
        /\ knn'.test = knn.test) => knn'.predictions = knn.predictions]_vars

\* The count a map of votes holds for label l, 0 for a key it lacks.
VoteOf(votes, l) == IF l \in DOMAIN votes THEN votes[l] ELSE 0

\* The number of votes cast: the sum of the counts of the map.
RECURSIVE TotalVotes(_, _)
TotalVotes(votes, keys) ==
    IF keys = {} THEN 0
    ELSE LET l == CHOOSE l \in keys : TRUE
         IN votes[l] + TotalVotes(votes, keys \ {l})

\* The number of training rows that carry label l.
RowsOf(train, l) == Cardinality({j \in 1..Len(train.Labels) : train.Labels[j] = l})

\* C25: a prediction with k >= 0 on N training rows casts exactly min(k, N)
\* votes, those of the first min(k, N) sorted neighbours; when k > N every
\* training row votes once; and a call on any query of the length of the
\* training rows, whatever k and N, has an outcome, which is a label or "".
C25_VotesOverMinKN ==
    /\ (SingleCall /\ knn.K >= 0) =>
         LET train == TrainOf(knn)
             N == Len(train.Features)
             m == IF knn.K < N THEN knn.K ELSE N
         IN /\ TotalVotes(knn.votes, DOMAIN knn.votes) = m
            /\ \A l \in Labels : VoteOf(knn.votes, l) = CountOf(knn.neighbors, m, l)
            /\ knn.K > N => \A l \in Labels : VoteOf(knn.votes, l) = RowsOf(train, l)
    /\ knn.pc \in {"new", "fit"} =>
         \A features \in KnnVals :
            /\ Predict(knn.K, knn.TrainData, features) # {}
            /\ \A one \in Predict(knn.K, knn.TrainData, features) :
                  one.chosen \in Labels \cup {""}
            /\ knn.pc = "new" =>
                  /\ knnPredict(knn.data.Features, knn.data.Labels, <<features>>, knn.K) # {}
                  /\ \A calls \in knnPredict(knn.data.Features, knn.data.Labels,
                                               <<features>>, knn.K) :
                        calls[1].chosen \in Labels \cup {""}

\* Predict with k = 3 on two training rows of different labels: both rows
\* vote, one vote each.
C25_Witness ==
    /\ SingleCall
    /\ knn.fn = "Predict"
    /\ knn.K = 3
    /\ knn.TrainData.Labels = <<"A", "B">>
    /\ Len(knn.neighbors) = 2
    /\ VoteOf(knn.votes, "A") = 1
    /\ VoteOf(knn.votes, "B") = 1

\* The first n entries sorted by ascending distance, entries of equal
\* distance in their original order: each entry goes behind every entry that
\* is not farther than it.
RECURSIVE StableOrder(_, _)
StableOrder(neighbors, n) ==
    IF n = 0 THEN <<>>
    ELSE LET sorted == StableOrder(neighbors, n - 1)
             e == neighbors[n]
             at == Cardinality({i \in 1..Len(sorted) : ~DistLess(e.dist, sorted[i].dist)})
         IN SubSeq(sorted, 1, at) \o <<e>> \o SubSeq(sorted, at + 1, Len(sorted))

\* The neighbor list of the last call before it was sorted.
Unsorted ==
    RankNeighbors(knn.fn, TrainOf(knn).Features, TrainOf(knn).Labels,
                  knn.test.Features[1])

C26_DistancesAreThoseOfStableOrder ==
    (SingleCall /\ ~TrainOf(knn).nil) =>
       LET stable == StableOrder(Unsorted, Len(Unsorted))
       IN /\ Len(knn.neighbors) = Len(stable)
          /\ \A i \in 1..Len(stable) : knn.neighbors[i].dist = stable[i].dist

\* k = 1, query 1, training rows 0 with label A and then 2 with label B, both
\* at distance 1: the row that comes second in training order is the nearest
\* neighbour and B is returned.
C26_SecondRowComesFirst ==
    /\ SingleCall
    /\ knn.fn = "Predict"
    /\ knn.K = 1
    /\ knn.TrainData.Features = <<<<0>>, <<2>>>>
    /\ knn.TrainData.Labels = <<"A", "B">>
    /\ knn.test.Features = <<<<1>>>>
    /\ knn.neighbors[1].label = "B"
    /\ knn.predictions = <<"B">>

\* A single prediction call has ended, with a result or with a panic.
CallEnded == knn.pc \in {"predicted", "panicked"} /\ knn.fn \in {"Predict", "knnPredict"}

\* The degenerate cases: no training data (never fitted), k <= 0, or no
\* training row.
Degenerate ==
    \/ TrainOf(knn).nil
    \/ knn.K <= 0
    \/ Len(TrainOf(knn).Features) = 0

\* "" in a degenerate case, else a label of the training set.
ReturnedAsClaimed ==
    /\ knn.pc = "predicted"
    /\ IF Degenerate THEN knn.predictions = <<"">>
       ELSE \E j \in 1..Len(TrainOf(knn).Labels) :
               knn.predictions = <<TrainOf(knn).Labels[j]>>

\* C30: a prediction call never fails; it returns "" when the model was not
\* fitted, when k <= 0 and when the training set is empty, and in every other
\* case a label that occurs among the training labels.
C30_PredictNeverFails == CallEnded => ReturnedAsClaimed

\* The same holds of KNNClassifier.Predict on every query, and of knnPredict
\* on every query that is not longer than a training row.
C30_HoldsWhenQueryFits ==
    (CallEnded /\ (knn.fn = "Predict" \/ QueryFits)) => ReturnedAsClaimed

\* knnPredict with k = 1 on the one training row [0] and the query [0, 1]:
\* the distance reads the second coordinate of the row, and the call panics.
C30_KnnPredictPanics ==
    /\ knn.pc = "panicked"
    /\ knn.fn = "knnPredict"
    /\ knn.K = 1
    /\ knn.data.Features = <<<<0>>>>
    /\ knn.test.Features = <<<<0, 1>>>>
    /\ knn.predictions = <<>>

\* Predict in the three degenerate cases and in a regular one.
C30_UnfittedReturnsEmpty ==
    /\ knn.pc = "predicted" /\ knn.fn = "Predict"
    /\ knn.TrainData.nil /\ knn.K = 1 /\ knn.predictions = <<"">>

(***************************************************************************)
(* Regression: the prediction functions and the least-squares fit.          *)
(*                                                                          *)
(* Coefficients, features and samples are integers, and a fitted value is   *)
(* an exact fraction Frac(num, den), not reduced: two fractions are         *)
(* compared by cross-multiplication.                                        *)
(***************************************************************************)
\* The values of an intercept or a coefficient, and of a feature.
CoefVals == {-1, 0, 2}
FeatVals == {1, 3}

\* A prediction loop that adds no term.
PredictionScanWrong(start, weights, features, n) == start

\* The loop of a prediction after the first n weights:
\* prediction += weight * features[i].
RECURSIVE PredictionScan(_, _, _, _)
PredictionScan(start, weights, features, n) ==
    IF n = 0 THEN start
    ELSE PredictionScan(start, weights, features, n - 1) + weights[n] * features[n]

\* housing_regression.predict: one feature, slope and intercept.
predict(featureValue, slope, intercept) == Frac(slope * featureValue + intercept, 1)

\* The prediction loop of housing_regression.performRegression for one
\* features row: coefficients[0] is the intercept, coefficients[j+1] goes with
\* feature j; the row is skipped unless there are more coefficients than
\* features.
predictRow(coefficients, featuresRow) ==
    IF Len(coefficients) > Len(featuresRow)
    THEN Frac(PredictionScan(coefficients[1], Tail(coefficients), featuresRow,
                             Len(featuresRow)), 1)
    ELSE [kind |-> "skipped"]

\* LinearRegression.predict of regration.go: one term per weight; features[i]
\* is out of range when there are fewer features than weights.
lrPredict(Weights, Bias, features) ==
    IF Len(Weights) > Len(features) THEN Panic
    ELSE Frac(PredictionScan(Bias, Weights, features, Len(Weights)), 1)

\* A call of a prediction function: the fitted model (intercept and the
\* coefficients in feature order) and a feature vector.
InitPredict ==
    \E intercept \in CoefVals, weights \in SeqsUpTo(CoefVals, MaxDim),
       features \in SeqsUpTo(FeatVals, MaxDim) :
        reg = [pc |-> "call", op |-> "predict", fn |-> "none",
               intercept |-> intercept, weights |-> weights, features |-> features,
               X |-> <<>>, y |-> <<>>, out |-> Idle]

\* predict(featureValue, slope, intercept): its signature takes one feature
\* and one slope.
CallPredictOneFeature ==
    /\ reg.pc = "call" /\ reg.op = "predict"
    /\ Len(reg.weights) = 1 /\ Len(reg.features) = 1
    /\ reg' = [reg EXCEPT !.pc = "returned", !.fn = "predict",
                          !.out = predict(reg.features[1], reg.weights[1], reg.intercept)]
    /\ UNCHANGED <<splitter, loader, knn, km, metric, menu>>

\* One turn of the prediction loop of performRegression.
CallPredictRow ==
    /\ reg.pc = "call" /\ reg.op = "predict"
    /\ reg' = [reg EXCEPT !.pc = "returned", !.fn = "predictRow",
                          !.out = predictRow(<<reg.intercept>> \o reg.weights,
                                             reg.features)]
    /\ UNCHANGED <<splitter, loader, knn, km, metric, menu>>

\* lr.predict(features).
CallLrPredict ==
    /\ reg.pc = "call" /\ reg.op = "predict"
    /\ reg' = [reg EXCEPT !.pc = "returned", !.fn = "lrPredict",
                          !.out = lrPredict(reg.weights, reg.intercept, reg.features)]
    /\ UNCHANGED <<splitter, loader, knn, km, metric, menu>>

\* float64 arithmetic on exact values: a fraction in lowest terms with a
\* positive denominator, +Inf, -Inf or NaN.
NegInf == [kind |-> "neginf"]

Abs(n) == IF n < 0 THEN -n ELSE n

RECURSIVE GCD(_, _)
GCD(a, b) == IF b = 0 THEN a ELSE GCD(b, a % b)

Reduce(num, den) ==
    LET g == GCD(Abs(num), Abs(den))
        sign == IF den < 0 THEN -1 ELSE 1
    IN Frac(sign * (num \div g), sign * (den \div g))

Num(n) == Frac(n, 1)

\* The sign of a value that is not NaN: -1, 0 or 1.
SignOf(f) ==
    IF f.kind = "inf" THEN 1
    ELSE IF f.kind = "neginf" THEN -1
    ELSE IF f.num > 0 THEN 1 ELSE IF f.num < 0 THEN -1 ELSE 0

Signed(sign) == IF sign > 0 THEN Inf ELSE NegInf

FNeg(f) ==
    IF f.kind = "nan" THEN NaN
    ELSE IF f.kind = "frac" THEN Frac(-f.num, f.den)
    ELSE Signed(-SignOf(f))

FAdd(f, g) ==
    IF f.kind = "nan" \/ g.kind = "nan" THEN NaN
    ELSE IF f.kind = "frac" /\ g.kind = "frac"
         THEN LET c == GCD(f.den, g.den)
              IN Reduce(f.num * (g.den \div c) + g.num * (f.den \div c),
                        f.den * (g.den \div c))
    ELSE IF f.kind = "frac" THEN g
    ELSE IF g.kind = "frac" \/ g = f THEN f
    ELSE NaN

FSub(f, g) == FAdd(f, FNeg(g))

FMul(f, g) ==
    IF f.kind = "nan" \/ g.kind = "nan" THEN NaN
    ELSE IF f.kind = "frac" /\ g.kind = "frac"
         THEN LET a == Reduce(f.num, g.den)
                  b == Reduce(g.num, f.den)
              IN Reduce(a.num * b.num, a.den * b.den)
    ELSE IF SignOf(f) * SignOf(g) = 0 THEN NaN
    ELSE Signed(SignOf(f) * SignOf(g))

FDiv(f, g) ==
    IF f.kind = "nan" \/ g.kind = "nan" THEN NaN
    ELSE IF g.kind = "frac"
         THEN IF g.num # 0
              THEN FMul(f, Reduce(g.den, g.num))
              ELSE IF SignOf(f) = 0 THEN NaN ELSE Signed(SignOf(f))
    ELSE IF f.kind = "frac" THEN Num(0)
    ELSE NaN

\* The sum of term[i] for i in 1..n, accumulated from 0.0 in index order.
RECURSIVE FSum(_, _)
FSum(term, n) == IF n = 0 THEN Num(0) ELSE FAdd(FSum(term, n - 1), term[n])

\* stat.Mean(x, nil): the sum divided by the number of values.
Mean(x) == FDiv(FSum([i \in 1..Len(x) |-> Num(x[i])], Len(x)), Num(Len(x)))

\* stat.LinearRegression(x, y, nil, false): the least-squares line
\* y = alpha + beta*x, beta = covariance(x, y) / variance(x) with the unbiased
\* (n - 1) estimators, alpha = mean(y) - beta*mean(x).
LinearRegression(x, y) ==
    LET n == Len(x)
        xu == Mean(x)
        yu == Mean(y)
        xv == FDiv(FSum([i \in 1..n |-> LET d == FSub(Num(x[i]), xu) IN FMul(d, d)], n),
                   Num(n - 1))
        cov == FDiv(FSum([i \in 1..n |-> FMul(FSub(Num(x[i]), xu), FSub(Num(y[i]), yu))], n),
                    Num(n - 1))
        beta == FDiv(cov, xv)
    IN [alpha |-> FSub(yu, FMul(beta, xu)), beta |-> beta]

\* The two sums of the R-squared loop: ssRes over the residuals of the line,
\* ssTotal over the deviations from the mean.
SsRes(x, y, intercept, slope) ==
    FSum([i \in 1..Len(x) |->
            LET predicted == FAdd(FMul(slope, Num(x[i])), intercept)
                d == FSub(Num(y[i]), predicted)
            IN FMul(d, d)], Len(x))

SsTotal(y) ==
    LET meanY == Mean(y)
    IN FSum([i \in 1..Len(y) |->
               LET d == FSub(Num(y[i]), meanY) IN FMul(d, d)], Len(y))

\* An R-squared that forgets the intercept in the predicted value.
RSquaredWrong(x, y, intercept, slope) ==
    FSub(Num(1), FDiv(SsRes(x, y, Num(0), slope), SsTotal(y)))

\* r2 := 1.0 - (ssRes / ssTotal); stat.RSquared is the same quotient.
RSquared(x, y, intercept, slope) ==
    FSub(Num(1), FDiv(SsRes(x, y, intercept, slope), SsTotal(y)))

\* The fit of performRegression in part_004: no check of the sample count.
fitSizePrice(sizeX, priceY) ==
    LET line == LinearRegression(sizeX, priceY)
    IN [kind |-> "fit", intercept |-> line.alpha, slope |-> line.beta,
        r2 |-> RSquared(sizeX, priceY, line.alpha, line.beta)]

\* The fit of housing_regression.performRegression: fewer than two samples
\* are reported as insufficient.
fitFeatureTarget(featureX, targetY) ==
    IF Len(featureX) < 2 THEN [kind |-> "insufficient"]
    ELSE LET line == LinearRegression(featureX, targetY)
         IN [kind |-> "fit", intercept |-> line.alpha, slope |-> line.beta,
             r2 |-> RSquared(featureX, targetY, line.alpha, line.beta)]

\* The x values of the samples, and the intercepts of the lines they lie on
\* or near.
XVals == 0..3
LineIntercepts == {0, 3}

\* A fit: n samples (x, y), where y = a*x + b except that the last sample
\* may lie 1 above the line.
InitFit ==
    \E n \in 0..MaxSamples, a \in CoefVals, b \in LineIntercepts :
      \E X \in [1..n -> XVals], above \in {0, n} :
        reg = [pc |-> "call", op |-> "fit", fn |-> "none",
               intercept |-> 0, weights |-> <<>>, features |-> <<>>,
               X |-> X,
               y |-> [i \in 1..n |-> a * X[i] + b + (IF i = above THEN 1 ELSE 0)],
               out |-> Idle]

CallFitSizePrice ==
    /\ reg.pc = "call" /\ reg.op = "fit"
    /\ reg' = [reg EXCEPT !.pc = "returned", !.fn = "fitSizePrice",
                          !.out = fitSizePrice(reg.X, reg.y)]
    /\ UNCHANGED <<splitter, loader, knn, km, metric, menu>>

CallFitFeatureTarget ==
    /\ reg.pc = "call" /\ reg.op = "fit"
    /\ reg' = [reg EXCEPT !.pc = "returned", !.fn = "fitFeatureTarget",
                          !.out = fitFeatureTarget(reg.X, reg.y)]
    /\ UNCHANGED <<splitter, loader, knn, km, metric, menu>>

InitRegression ==
    /\ InitPredict \/ InitFit
    /\ splitter = Idle /\ loader = Idle /\ knn = Idle /\ km = Idle
    /\ metric = Idle /\ menu = Idle

NextRegression ==
    \/ CallPredictOneFeature
    \/ CallPredictRow
    \/ CallLrPredict
    \/ CallFitSizePrice
    \/ CallFitFeatureTarget

SpecRegression == InitRegression /\ [][NextRegression]_vars

\* The expected prediction: intercept + sum of coefficient i * feature i.
Expected(intercept, weights, features) ==
    intercept + SumOver([i \in 1..Len(features) |-> weights[i] * features[i]],
                        1..Len(features))

\* C17: for a fitted model and a feature vector with one feature per
\* coefficient, each prediction function returns
\* intercept + sum over i of coefficient i * feature i, coefficient i being
\* the i-th in input order.
C17_PredictIsInterceptPlusWeightedSum ==
    (/\ reg.pc = "returned" /\ reg.op = "predict"
     /\ Len(reg.weights) = Len(reg.features)) =>
        reg.out = Frac(Expected(reg.intercept, reg.weights, reg.features), 1)

\* The prediction loop of performRegression returned -1 + 0*3 + 2*1 = 1 for
\* the coefficients (0, 2) and the features (3, 1), not -1 + 0*1 + 2*3 = 5.
C17_Witness ==
    /\ reg.pc = "returned" /\ reg.fn = "predictRow"
    /\ reg.intercept = -1 /\ reg.weights = <<0, 2>> /\ reg.features = <<3, 1>>
    /\ reg.out = Frac(1, 1)

\* The same for housing_regression.predict: 2*3 + (-1) = 5.
C17_WitnessOneFeature ==
    /\ reg.pc = "returned" /\ reg.fn = "predict"
    /\ reg.intercept = -1 /\ reg.weights = <<2>> /\ reg.features = <<3>>
    /\ reg.out = Frac(5, 1)

\* The value of a fraction is the integer v.
IsValue(f, v) == f.kind = "frac" /\ f.num = v * f.den

\* The samples lie on the line y = a*x + b.
OnLine(X, y, a, b) == \A i \in 1..Len(X) : y[i] = a * X[i] + b

\* C18: a fit on samples that all lie on a line y = a*x + b with a # 0 and
\* at least two distinct x values yields slope a, intercept b and R-squared 1.
C18_FitRecoversExactLine ==
    (reg.pc = "returned" /\ reg.op = "fit") =>
      \A a \in CoefVals \ {0}, b \in LineIntercepts :
        (OnLine(reg.X, reg.y, a, b) /\ Cardinality(Range(reg.X)) >= 2) =>
           /\ reg.out.kind = "fit"
           /\ IsValue(reg.out.slope, a)
           /\ IsValue(reg.out.intercept, b)
           /\ IsValue(reg.out.r2, 1)

\* The example of the claim: x = [0,1,2,3], y = [3,5,7,9] gave slope 2,
\* intercept 3 and R-squared 1.
C18_Witness ==
    /\ reg.pc = "returned" /\ reg.fn = "fitSizePrice"
    /\ reg.X = <<0, 1, 2, 3>> /\ reg.y = <<3, 5, 7, 9>>
    /\ IsValue(reg.out.slope, 2) /\ IsValue(reg.out.intercept, 3)
    /\ IsValue(reg.out.r2, 1)

(***************************************************************************)
(* The driver: main's menu loop, runExercise and the Run of each exercise.  *)
(*                                                                          *)
(* menu.pc is "prompt" while getUserChoice waits for a choice, "exited"     *)
(* after choice 0 (main returns) and "terminated" when the process ended    *)
(* inside an exercise. menu.log has one entry per exercise that was run.    *)
(* main.go holds two drivers: one starts each exercise as a child process   *)
(* with exec.Command (menu.driver = "exec"), the other calls the Run of the *)
(* exercise's package in its own process (menu.driver = "call").            *)
(***************************************************************************)
\* What an exercise finds: its dataset file, and the line the user types.
Datasets == {"ok", "missing", "unparseable"}
UserInputs == {"ok", "invalid"}

\* How the call of an exercise ended: failure is what went wrong, reported
\* whether the error was printed, exit how control left Run.
Outcome(exercise, failure, reported, exit) ==
    [exercise |-> exercise, failure |-> failure, reported |-> reported, exit |-> exit]

\* regression.Run: performRegression logs a load or conversion error and
\* returns; Run returns.
regressionRun(dataset) ==
    IF dataset # "ok"
    THEN Outcome("regression", dataset, TRUE, "return")
    ELSE Outcome("regression", "none", FALSE, "return")

\* classification.Run: log.Fatal on a loadCSV error and on a readUserInput
\* error; log.Fatal prints and calls os.Exit(1).
classificationRun(dataset, userInput) ==
    IF dataset # "ok"
    THEN Outcome("classification", dataset, TRUE, "os.Exit")
    ELSE IF userInput # "ok"
         THEN Outcome("classification", "input", TRUE, "os.Exit")
         ELSE Outcome("classification", "none", FALSE, "return")

\* clustering.Run: panic(err) on a loadData error; nothing recovers it.
clusteringRun(dataset) ==
    IF dataset # "ok"
    THEN Outcome("clustering", dataset, TRUE, "panic")
    ELSE Outcome("clustering", "none", FALSE, "return")

\* runExercise of the exec driver: the exercise runs as a child process; a
\* child that ends with an error status makes cmd.Run return an error, which
\* is printed before runExercise returns.
execRun(exercise, dataset, userInput) ==
    IF dataset # "ok" THEN Outcome(exercise, dataset, TRUE, "return")
    ELSE IF exercise = "classification" /\ userInput # "ok"
         THEN Outcome(exercise, "input", TRUE, "return")
         ELSE Outcome(exercise, "none", FALSE, "return")

\* The loop of main after runExercise: back to showMenu unless the process
\* ended inside the exercise.
AfterExercise(outcome) ==
    [pc |-> IF outcome.exit = "return" THEN "prompt" ELSE "terminated",
     driver |-> menu.driver,
     invalid |-> 0,
     log |-> Append(menu.log, outcome)]

InitMenu ==
    \E driver \in {"exec", "call"} :
        menu = [pc |-> "prompt", driver |-> driver, invalid |-> 0, log |-> <<>>]

\* getUserChoice on a line that is not a number from 0 to 3: it prints
\* "Invalid choice" and prompts again.
InvalidChoice ==
    /\ menu.pc = "prompt"
    /\ menu.invalid < MaxInvalid
    /\ menu' = [menu EXCEPT !.invalid = @ + 1]
    /\ UNCHANGED <<splitter, loader, knn, km, metric, reg>>

\* Choice 0: the loop breaks and main returns.
ChooseExit ==
    /\ menu.pc = "prompt"
    /\ menu' = [menu EXCEPT !.pc = "exited"]
    /\ UNCHANGED <<splitter, loader, knn, km, metric, reg>>

\* A choice from 1 to 3 in the exec driver.
RunChild ==
    /\ menu.pc = "prompt"
    /\ menu.driver = "exec"
    /\ Len(menu.log) < MaxRounds
    /\ \E exercise \in {"classification", "clustering", "regression"},
          dataset \in Datasets, userInput \in UserInputs :
          menu' = AfterExercise(execRun(exercise, dataset, userInput))
    /\ UNCHANGED <<splitter, loader, knn, km, metric, reg>>

\* Choice 1 in the call driver.
RunRegression ==
    /\ menu.pc = "prompt"
    /\ menu.driver = "call"
    /\ Len(menu.log) < MaxRounds
    /\ \E dataset \in Datasets : menu' = AfterExercise(regressionRun(dataset))
    /\ UNCHANGED <<splitter, loader, knn, km, metric, reg>>

\* Choice 2 in the call driver.
RunClassification ==
    /\ menu.pc = "prompt"
    /\ menu.driver = "call"
    /\ Len(menu.log) < MaxRounds
    /\ \E dataset \in Datasets, userInput \in UserInputs :
          menu' = AfterExercise(classificationRun(dataset, userInput))
    /\ UNCHANGED <<splitter, loader, knn, km, metric, reg>>

\* Choice 3 in the call driver.
RunClustering ==
    /\ menu.pc = "prompt"
    /\ menu.driver = "call"
    /\ Len(menu.log) < MaxRounds
    /\ \E dataset \in Datasets : menu' = AfterExercise(clusteringRun(dataset))
    /\ UNCHANGED <<splitter, loader, knn, km, metric, reg>>

InitDriver ==
    /\ InitMenu
    /\ splitter = Idle /\ loader = Idle /\ knn = Idle /\ km = Idle
    /\ metric = Idle /\ reg = Idle

NextDriver ==
    \/ InvalidChoice
    \/ ChooseExit
    \/ RunChild
    \/ RunRegression
    \/ RunClassification
    \/ RunClustering

SpecDriver == InitDriver /\ [][NextDriver]_vars

\* C19: every exercise that failed had its error reported and returned to
\* the menu loop; the process never ends inside an exercise.
C19_FailureReturnsToMenu ==
    /\ menu.pc # "terminated"
    /\ \A i \in 1..Len(menu.log) :
          menu.log[i].failure # "none" =>
             menu.log[i].reported /\ menu.log[i].exit = "return"

\* The same for the exec driver and for the regression exercise, which holds.
C19_RegressionFailureReturnsToMenu ==
    \A i \in 1..Len(menu.log) :
       (/\ menu.driver = "exec" \/ menu.log[i].exercise = "regression"
        /\ menu.log[i].failure # "none") =>
          /\ menu.log[i].reported /\ menu.log[i].exit = "return"
          /\ (i = Len(menu.log) => menu.pc # "terminated")

\* The clustering exercise did not find its dataset and the process ended.
C19_ClusteringPanicked ==
    /\ menu.pc = "terminated"
    /\ menu.driver = "call"
    /\ menu.log = <<Outcome("clustering", "missing", TRUE, "panic")>>

====
